---- MODULE Spec2Model ----
(***************************************************************************)
(* FetchBox: the ingest -> persist -> dispatch pipeline.                   *)
(*                                                                         *)
(*   queue store   src/src/queue/store.rs    (FjallQueue)                  *)
(*   task broker   src/src/queue/broker.rs   (TaskBroker)                  *)
(*   ledger store  src/src/ledger/store.rs   (FjallStore)                  *)
(*   ingest        src/src/api/services.rs   (ingest_job)                  *)
(*                                                                         *)
(* Ingest requests are cooperative tasks running in parallel; each ledger  *)
(* or queue partition write is one atomic step.  A write may fail (Fjall   *)
(* returns Err), a request may be cancelled at an await, a worker may drop *)
(* its receiver, and the process may crash and be restarted: the           *)
(* partitions survive, everything in memory is rebuilt by the bootstrap.   *)
(*                                                                         *)
(*   proxy resolver  src/src/config/resolver.rs  (ProxyGraph)              *)
(*                                                                         *)
(* The resolver is a pure function of the proxy section of the             *)
(* configuration; it is checked on its own, under ResolveSpec, one         *)
(* recursion step of resolve_recursive at a time.                          *)
(*                                                                         *)
(*   config validation  src/src/config/validation.rs  (validate_proxy_pools)*)
(*                                                                         *)
(* The validation of the proxy section is checked under ValidateSpec, one  *)
(* recursion step of detect_cycles at a time.                              *)
(*                                                                         *)
(*   manifest validation  src/src/api/validation.rs  (ManifestSpec)        *)
(*   request checks       src/src/api/services.rs    (RequestSpec)         *)
(*   ledger and pruning   src/src/ledger/store.rs, pruning.rs (LedgerSpec) *)
(*   dead letter queue    src/src/queue/store.rs     (DlqSpec)             *)
(*   health endpoint      src/src/api/services.rs    (HealthSpec)          *)
(*   dispatch, fair workers   src/src/queue/broker.rs   (DispatchSpec)     *)
(*   validation then resolve_all  src/src/config/    (AgreeSpec)           *)
(*   queue store with restarts and dlq  src/src/queue/store.rs (DlqRunSpec)*)
(***************************************************************************)
EXTENDS Integers, Sequences, FiniteSets

(***************************************************************************)
(* Bounds of the model.                                                    *)
(***************************************************************************)
MaxRes == 2
MaxTasks == 3
MaxReqs == 2
MaxFaults == 1
MaxRestarts == 1
MaxPools == 3
MaxFallbacks == 2
\* the calls of the ledger store in a run, and the days a run lasts
MaxCalls == 3
MaxDays == 45

Procs == {1, 2}
\* TaskBroker::new(queue, num_workers, channel_size): the brokers checked
BrokerConfigs ==
    {[num_workers |-> 2, channel_size |-> 1], [num_workers |-> 1, channel_size |-> 2]}
Keys == {"k1"}
NoKey == "none"
\* request headers: all good, a Content-Type that is missing or not
\* application/json, no X-Fetchbox-Tenant
Headers == {"ok", "bad_content_type", "no_tenant"}
Tenants == {"acme"}
\* request bodies: a valid manifest, more than MAX_PAYLOAD_SIZE bytes, not JSON,
\* JSON that fails validate_manifest
Bodies == {"ok", "too_large", "not_json", "invalid"}
StorageKeys == {"p/m.json"}
None == -1
Free == 0
JobIds == 1..MaxReqs
\* pool names and references to pools are paths: <<"a">>, <<"pools", "a">>
PoolLetters == <<"a", "b", "c", "d", "e">>
PoolNames == {<<PoolLetters[i]>> : i \in 1..MaxPools}
\* what a fallback entry may name: a pool, a pool behind the "pools/" prefix,
\* a pool that is not configured
PoolRefs == PoolNames \cup {<<"pools", "b">>, <<"zz">>}
\* the pool names resolve is called with
RootRefs == {<<"a">>, <<"pools", "a">>}
SeqIds == 0..(MaxTasks - 1)

VARIABLES
    \* queue store partitions (on disk)
    tasks,            \* tasks partition: seq -> DownloadTask, NoTask when absent
    meta_next_seq,    \* metadata partition, key "next_seq": a number, None when absent
    \* queue store and broker, in memory
    seq_counter,      \* FjallQueue.seq_counter
    lock,             \* holder of the RwLock write guard around the queue
    num_workers,      \* TaskBroker: worker_channels.len()
    channel_size,     \* TaskBroker: capacity of each worker channel
    next_worker,      \* TaskBroker.next_worker
    inbox,            \* worker_channels: per worker, the buffered envelopes
    inbox_open,       \* per worker, whether its receiver is still alive
    received,         \* per worker, the envelopes its receiver has returned
    \* ledger store partitions (on disk) and object storage
    jobs,             \* jobs partition: job id -> JobSnapshot, NoSnapshot when absent
    idem,             \* idempotency partition: key -> job id, None when absent
    objstore,         \* object keys uploaded
    job_clock,        \* requests seen so far: the source of fresh job ids
    \* metrics
    tasks_published,
    jobs_accepted,
    \* the ingest requests
    proc,             \* per request slot: position in ingest_job and its locals;
                      \* a slot whose request has been answered is free again
    \* environment budgets
    tasks_left,
    faults_left,
    restarts,
    \* observation of the run (history)
    hist,
    \* proxy configuration and the resolver
    pools,            \* ProxyConfig.pools: pool name -> ProxyPoolConfig
    root,             \* resolve: its pool_name argument
    visited,          \* resolve: the HashSet of pool names seen
    tiers,            \* resolve: the tiers collected so far
    frames,           \* the active calls of resolve_recursive, outermost first:
                      \* the pool of each and the fallback its loop visits next
    result,           \* where resolve stands and what it returned
    resolved,         \* resolve_all: the pools resolved so far, with their tiers
    \* validate_proxy_pools (config/validation.rs)
    todo,             \* the pools whose detect_cycles run has not started
    dc_visited,       \* detect_cycles: visited
    dc_frames,        \* the active calls of detect_cycles, outermost first; their
                      \* pools are `path`
    validation,       \* where validate_proxy_pools stands and what it returned
    \* validate_manifest (api/validation.rs) and the upload key of ingest_job
    manifest,         \* the Manifest parsed from a request body
    verdict,          \* what validate_manifest returned for it
    storage_key,      \* services.rs:113 the object key the manifest is uploaded under
    \* the checks of ingest_job on one request (api/services.rs)
    registry,         \* AppState.registry: the job types with a handler
    max_payload_bytes,\* Config: server.api.max_payload_bytes
    request,          \* the request: its headers and its body
    position,         \* the check ingest_job is at
    checked,          \* the checks evaluated so far, in order
    answer,           \* the response, once there is one
    \* FjallStore called directly (ledger/store.rs, ledger/pruning.rs)
    wall_clock,       \* the wall clock: seconds since the epoch and nanoseconds
    ledger_meta,      \* the metadata partition: the three pruning cursors
    written,          \* what the callers wrote last and prune_expired has not
                      \* removed: a snapshot per job id, a job id per key
    ledger_call,      \* the last call of the store and what it returned
    \* FjallQueue: the dead letter queue (queue/store.rs)
    dlq,              \* the dlq partition: the entry under each sequence number
    queue_call,       \* the last call of move_to_dlq or get_dlq_task and its result
    \* GET /health (api/services.rs)
    health_answer     \* the response of the health handler, once it was called

qvars == <<tasks, meta_next_seq, seq_counter, lock>>
\* the resolver's working state
rvars == <<root, visited, tiers, frames, result, resolved>>
\* configuration (broker and proxy pools) and the resolver working on it: the
\* ingest pipeline leaves them alone
\* the validator's working state
dvars == <<todo, dc_visited, dc_frames, validation>>
\* the manifest under validation
fvars == <<manifest, verdict, storage_key>>
\* the request under check and the configuration it is checked against
uvars == <<registry, max_payload_bytes, request, position, checked, answer>>
\* the ledger store as its callers see it
gvars == <<wall_clock, ledger_meta, written, ledger_call>>
\* the dead letter queue as its callers see it
kvars == <<dlq, queue_call>>
cvars ==
    <<num_workers, channel_size, pools, rvars, dvars, fvars, uvars, gvars, kvars,
      health_answer>>
bvars == <<cvars, next_worker, inbox, inbox_open, received>>
lvars == <<jobs, idem, objstore, job_clock>>
mvars == <<tasks_published, jobs_accepted>>
evars == <<tasks_left, faults_left, restarts>>
vars == <<qvars, bvars, lvars, mvars, proc, evars, hist>>
\* the running server
ivars ==
    <<qvars, num_workers, channel_size, next_worker, inbox, inbox_open, received,
      lvars, mvars, proc, evars, hist>>
\* everything the resolver leaves alone
pvars ==
    <<ivars, pools, dvars, fvars, uvars, gvars, kvars, health_answer>>
\* everything the configuration validation leaves alone
not_dvars ==
    <<ivars, pools, rvars, fvars, uvars, gvars, kvars, health_answer>>
\* everything the manifest validation leaves alone
not_fvars ==
    <<ivars, pools, rvars, dvars, uvars, gvars, kvars, health_answer>>
\* everything the checks of a request leave alone
not_uvars ==
    <<ivars, pools, rvars, dvars, fvars, gvars, kvars, health_answer>>
\* everything a call of the ledger store leaves alone: all but the jobs and
\* idempotency partitions and gvars
not_gvars ==
    <<qvars, num_workers, channel_size, next_worker, inbox, inbox_open, received,
      objstore, job_clock, mvars, proc, evars, hist, pools, rvars, dvars, fvars,
      uvars, kvars, health_answer>>
\* everything a call of the dead letter queue leaves alone
not_kvars == <<ivars, pools, rvars, dvars, fvars, uvars, gvars, health_answer>>
\* everything the health handler leaves alone
not_health == <<ivars, pools, rvars, dvars, fvars, uvars, gvars, kvars>>

NoTask ==
    [job_id |-> 0, tenant |-> "", manifest_key |-> <<>>, resource_id |-> <<>>,
     url |-> <<>>, attempt |-> 0]
NoSnapshot ==
    [job_id |-> 0, status |-> "absent", created_at |-> 0, updated_at |-> 0,
     resource_total |-> 0, resource_completed |-> 0, resource_failed |-> 0,
     manifest_key |-> <<>>, errors |-> <<>>, tenant |-> ""]

Workers == 0..(num_workers - 1)

Max(a, b) == IF a >= b THEN a ELSE b

SetMax(S) == CHOOSE x \in S : \A y \in S : y <= x

IsPrefix(s, t) == Len(s) <= Len(t) /\ SubSeq(t, 1, Len(s)) = s

Range(s) == {s[i] : i \in DOMAIN s}

(***************************************************************************)
(* Values.                                                                 *)
(***************************************************************************)
\* the i-th resource of a manifest: its name and url
Resource(i) == [name |-> <<"res", i>>, url |-> <<"https", i>>]

\* a valid manifest with n resources
Manifest(n) == [i \in 1..n |-> Resource(i)]

\* handlers/types.rs from_resource: the lite task of a resource
from_resource(res) == [resource_name |-> res.name, url |-> res.url]

\* the lite tasks in reverse manifest order
build_tasks_Reversed(m) == [i \in DOMAIN m |-> from_resource(m[Len(m) + 1 - i])]

\* handlers/default.rs build_tasks: one lite task per resource, in manifest order
build_tasks(m) == [i \in DOMAIN m |-> from_resource(m[i])]

\* broker.rs TaskEnvelope {seq, task}
Envelope(s, t) == [seq |-> s, task |-> t]

\* services.rs:124 manifest_key = "s3://{bucket}/{key}"
ManifestKey(skey) == <<"s3", "bucket", skey>>

\* handlers/types.rs to_proto: the task as persisted and dispatched
to_proto(lite, j, tenant, mkey) ==
    [job_id |-> j, tenant |-> tenant, manifest_key |-> mkey,
     resource_id |-> lite.resource_name, url |-> lite.url, attempt |-> 1]

\* services.rs:181-198 the i-th task of request r
Task(r, i) ==
    to_proto(build_tasks(Manifest(r.n))[i], r.job, r.tenant, ManifestKey(r.skey))

\* a snapshot whose updated_at is read from the clock a second time
Snapshot_Restamped(r, now) ==
    [job_id |-> r.job, status |-> "Queued", created_at |-> now,
     updated_at |-> now + 1, resource_total |-> Len(Manifest(r.n)),
     resource_completed |-> 0, resource_failed |-> 0,
     manifest_key |-> ManifestKey(r.skey), errors |-> <<>>, tenant |-> r.tenant]

\* services.rs:128-143 JobSnapshot of a fresh job, stamped with the time now
Snapshot(r, now) ==
    [job_id |-> r.job, status |-> "Queued", created_at |-> now, updated_at |-> now,
     resource_total |-> Len(Manifest(r.n)), resource_completed |-> 0,
     resource_failed |-> 0, manifest_key |-> ManifestKey(r.skey), errors |-> <<>>,
     tenant |-> r.tenant]

\* models.rs JobAcceptedResponse {job_id, manifest_key, resource_count}
NoResp == [job |-> 0, mkey |-> <<>>, count |-> 0]

IdleProc ==
    [pc |-> "idle", tenant |-> "", key |-> NoKey, body |-> "ok", n |-> 0, skey |-> "",
     job |-> 0, idx |-> 0, seq |-> None, widx |-> None, cand |-> None,
     \* the job id of a stored idempotency pointer that led to no snapshot
     orphan |-> None,
     \* the response, once pc = "done"
     status |-> 0, kind |-> "", rjob |-> 0, rkey |-> <<>>, rcount |-> 0,
     \* observation of this request
     floor |-> None, callk |-> None, waited |-> FALSE, wlog |-> <<>>,
     seqs |-> <<>>,
     uploads |-> 0, expect |-> NoResp]

\* the response of a finished request: the locals are dropped
Respond(r, status, kind, j, mk, cnt) ==
    [IdleProc EXCEPT !.pc = "done", !.key = r.key,
                     !.status = status, !.kind = kind, !.rjob = j, !.rkey = mk,
                     !.rcount = cnt, !.wlog = r.wlog,
                     !.uploads = r.uploads, !.expect = r.expect]

Fail(r, status) == Respond(r, status, "error", 0, <<>>, 0)

\* an internal failure answered as an invalid payload
Internal_AsInvalid(r) == Fail(r, 400)

\* error.rs:28 ApiError::Internal is answered 500
Internal(r) == Fail(r, 500)

InFlight(p) == proc[p].pc \notin {"idle", "done"}

\* inside TaskBroker::enqueue, past the write lock
InCall(p) == proc[p].pc \in {"qmeta", "select", "send"}

(***************************************************************************)
(* FjallQueue (src/src/queue/store.rs)                                     *)
(***************************************************************************)
\* FjallQueue::open: the counter is loaded from metadata/next_seq, 0 if absent
OpenCounter(meta) == IF meta = None THEN 0 ELSE meta

\* FjallQueue::current_seq
current_seq == seq_counter

\* FjallQueue::get_task
get_task(s) == IF s \in SeqIds THEN tasks[s] ELSE NoTask

\* persisting the sequence number just used instead of the next one
NextSeqFor_Same(s) == s

\* the counter value persisted by a successful enqueue of seq
NextSeqFor(s) == s + 1

\* keys present in the tasks partition
TaskKeys == {s \in SeqIds : tasks[s] # NoTask}

(***************************************************************************)
(* TaskBroker (src/src/queue/broker.rs)                                    *)
(***************************************************************************)
\* a selection that starts one inbox ahead
WorkerIdx_Skip(nw) == (nw + 1) % num_workers

\* round-robin choice: fetch_add(next_worker) % worker_channels.len()
WorkerIdx(nw) == nw % num_workers

\* a channel that admits one envelope beyond its capacity
HasCapacity_Over(w) == Len(inbox[w]) <= channel_size

\* bounded channel: a send completes only when a slot is free
HasCapacity(w) == Len(inbox[w]) < channel_size

\* a send that puts the envelope ahead of the buffered ones
ChannelPush_Front(q, e) == <<e>> \o q

\* mpsc send into an open inbox: the envelope joins the tail
ChannelPush(q, e) == Append(q, e)

\* a receive that takes the newest envelope
ChannelHead_Last(q) == q[Len(q)]

\* mpsc recv: the envelope at the head
ChannelHead(q) == Head(q)

ChannelRest(q) == Tail(q)

(***************************************************************************)
(* ProxyGraph (src/src/config/resolver.rs)                                 *)
(***************************************************************************)
\* the primary proxy URIs configured for a pool, in declared order
Primary(name) == << <<"http", name[1], 1>>, <<"http", name[1], 2>> >>

\* a ProxyConfig.pools map whose pools have the fallback lists fb
PoolsOf(fb) == [n \in DOMAIN fb |-> [primary |-> Primary(n), fallbacks |-> fb[n]]]

SeqsUpTo(S, n) == UNION {[1..k -> S] : k \in 0..n}

\* the fallback lists of the configurations checked
FallbackMaps == [PoolNames -> SeqsUpTo(PoolRefs, MaxFallbacks)]

\* resolver.rs:46 current.strip_prefix("pools/").unwrap_or(current)
strip_prefix(ref) == IF Len(ref) > 1 /\ Head(ref) = "pools" THEN Tail(ref) ELSE ref

\* resolver.rs:62-66 the tier of a pool: one ProxyEndpoint per primary URI
Endpoints(pool) == [i \in DOMAIN pool.primary |-> [uri |-> pool.primary[i]]]

NoResult == [state |-> "idle", err |-> << >>, path |-> << >>]

\* the pools of the active calls, outermost first: the current DFS path
PathOf(fs) == [i \in DOMAIN fs |-> fs[i].pool]

\* a revisit reported as a missing pool
CycleDetected_AsMissing(name, fs) ==
    [state |-> "PoolNotFound", err |-> name, path |-> PathOf(fs)]

\* resolver.rs:49-51 Err(CycleDetected(pool_name))
CycleDetected(name, fs) ==
    [state |-> "CycleDetected", err |-> name, path |-> PathOf(fs)]

\* resolver.rs:56-59 Err(PoolNotFound(pool_name))
PoolNotFound(name, fs) ==
    [state |-> "PoolNotFound", err |-> name, path |-> PathOf(fs)]

\* resolver.rs:44-68 resolve_recursive(ref, visited, tiers) called with the
\* active calls fs: the cycle check, the lookup, the tier; an Err unwinds
\* every active call
resolve_recursive(ref, fs) ==
    LET pool_name == strip_prefix(ref)
    IN IF pool_name \in visited
       THEN /\ result' = CycleDetected(pool_name, fs)
            /\ frames' = << >>
            /\ UNCHANGED <<visited, tiers>>
       ELSE /\ visited' = visited \cup {pool_name}
            /\ IF pool_name \notin DOMAIN pools
               THEN /\ result' = PoolNotFound(pool_name, fs)
                    /\ frames' = << >>
                    /\ UNCHANGED tiers
               ELSE /\ tiers' = Append(tiers, Endpoints(pools[pool_name]))
                    /\ frames' = Append(fs, [pool |-> pool_name, next |-> 1])
                    /\ result' = [result EXCEPT !.state = "running"]

\* resolver.rs:30-34 resolve(pool_name): fresh visited and tiers, first call
resolve(ref) ==
    /\ result.state = "idle"
    /\ root' = ref
    /\ resolve_recursive(ref, << >>)
    /\ UNCHANGED <<resolved, pvars>>

\* resolver.rs:71-73 the loop of the innermost call takes its next fallback
ResolveFallback ==
    /\ result.state = "running"
    /\ frames # << >>
    /\ LET top == frames[Len(frames)]
           fbs == pools[top.pool].fallbacks
       IN /\ top.next <= Len(fbs)
          /\ resolve_recursive(fbs[top.next],
                               [frames EXCEPT ![Len(frames)].next = top.next + 1])
    /\ UNCHANGED <<root, resolved, pvars>>

\* resolver.rs:75 the innermost call is through its fallbacks and returns
\* Ok(()); when it was the first call, resolve returns Ok(tiers) (resolver.rs:36)
ResolveReturn ==
    /\ result.state = "running"
    /\ frames # << >>
    /\ LET top == frames[Len(frames)]
       IN top.next > Len(pools[top.pool].fallbacks)
    /\ frames' = SubSeq(frames, 1, Len(frames) - 1)
    /\ result' = IF Len(frames) = 1 THEN [result EXCEPT !.state = "Ok"] ELSE result
    /\ UNCHANGED <<root, visited, tiers, resolved, pvars>>

\* the pools resolve_all has a ResolvedProxyPool for
ResolvedNames == {e.pool_name : e \in resolved}

\* resolver.rs:82-84 the loop of resolve_all takes a key of the pools map (in
\* the order of the HashMap, which is any order) and calls resolve on it
ResolveAllCall(name) ==
    /\ name \in DOMAIN pools
    /\ name \notin ResolvedNames
    /\ resolve(name)

\* resolver.rs:84-85 resolve returned Ok: the pool and its tiers are kept; the
\* next resolve starts with a new visited and new tiers (resolver.rs:31-32).
\* An Err leaves resolve_all through `?` with the error in result.
ResolveAllInsert ==
    /\ result.state = "Ok"
    /\ resolved' = resolved \cup {[pool_name |-> root, tiers |-> tiers]}
    /\ root' = << >>
    /\ visited' = {}
    /\ tiers' = << >>
    /\ result' = NoResult
    /\ UNCHANGED <<frames, pvars>>

\* resolver.rs:88 resolve_all returned Ok(resolved)
ResolveAllOk == result.state = "idle" /\ ResolvedNames = DOMAIN pools

\* resolver.rs:84 resolve_all returned the Err of a resolve
ResolveAllErr == result.state \in {"CycleDetected", "PoolNotFound"}

(***************************************************************************)
(* validate_proxy_pools (src/src/config/validation.rs)                     *)
(***************************************************************************)
NoValidation ==
    [state |-> "idle", pool |-> << >>, fallback |-> << >>, path |-> << >>]

\* validation.rs:77-79 the fallbacks of a pool that name no configured pool,
\* by position in its list
Dangling(n) ==
    {i \in DOMAIN pools[n].fallbacks :
        strip_prefix(pools[n].fallbacks[i]) \notin DOMAIN pools}

\* validation.rs:80-83 Err(InvalidFallbackReference {pool, fallback})
InvalidFallbackReference(n, fb) ==
    [state |-> "InvalidFallbackReference", pool |-> n, fallback |-> fb,
     path |-> << >>]

\* the cycle reported without the pool that closes it
ProxyFallbackCycle_Open(path, current) ==
    [state |-> "ProxyFallbackCycle", pool |-> << >>, fallback |-> << >>,
     path |-> path]

\* validation.rs:105-108 path.push(current); Err(ProxyFallbackCycle {path})
ProxyFallbackCycle(path, current) ==
    [state |-> "ProxyFallbackCycle", pool |-> << >>, fallback |-> << >>,
     path |-> Append(path, current)]

\* validation.rs:75-86 the reference check: the first pool of the iteration
\* that has a dangling fallback is reported with the first such fallback of
\* its list (HashMap iteration: any pool may come first); validation.rs:89
\* otherwise the cycle detection starts over all the pools
CheckReferences ==
    /\ validation.state = "idle"
    /\ IF \E n \in DOMAIN pools : Dangling(n) # {}
       THEN /\ \E n \in DOMAIN pools :
                  /\ Dangling(n) # {}
                  /\ validation' = InvalidFallbackReference(n,
                        pools[n].fallbacks[CHOOSE i \in Dangling(n) :
                                              \A j \in Dangling(n) : i <= j])
            /\ UNCHANGED todo
       ELSE /\ validation' =
                  [validation EXCEPT !.state =
                      IF DOMAIN pools = {} THEN "Ok" ELSE "detecting"]
            /\ todo' = DOMAIN pools
    /\ UNCHANGED <<dc_visited, dc_frames, not_dvars>>

\* validation.rs:97-116 detect_cycles(current, pools, visited, path) called
\* with the active calls fs: a pool on the path is a cycle and the Err unwinds
\* every call; a visited pool returns Ok(()) at once; any other pool is marked
\* and pushed
detect_cycles(current, vis, fs) ==
    IF \E i \in DOMAIN fs : fs[i].pool = current
    THEN /\ validation' = ProxyFallbackCycle(PathOf(fs), current)
         /\ dc_frames' = << >>
         /\ dc_visited' = vis
    ELSE IF current \in vis
         THEN /\ dc_frames' = fs
              /\ dc_visited' = vis
              /\ UNCHANGED validation
         ELSE /\ dc_visited' = vis \cup {current}
              /\ dc_frames' = Append(fs, [pool |-> current, next |-> 1])
              /\ UNCHANGED validation

\* validation.rs:89-90 the loop over the pools takes its next key and calls
\* detect_cycles with a fresh visited set and an empty path
DetectFrom ==
    /\ validation.state = "detecting"
    /\ dc_frames = << >>
    /\ \E n \in todo :
          /\ todo' = todo \ {n}
          /\ detect_cycles(n, {}, << >>)
    /\ UNCHANGED not_dvars

\* the fallbacks the loop of a call runs over (validation.rs:118: none when
\* the pool is not configured)
FallbacksOf(n) == IF n \in DOMAIN pools THEN pools[n].fallbacks ELSE << >>

\* validation.rs:119-122 the loop of the innermost call takes its next fallback
DetectFallback ==
    /\ validation.state = "detecting"
    /\ dc_frames # << >>
    /\ LET top == dc_frames[Len(dc_frames)]
           fbs == FallbacksOf(top.pool)
       IN /\ top.next <= Len(fbs)
          /\ detect_cycles(strip_prefix(fbs[top.next]), dc_visited,
                           [dc_frames EXCEPT ![Len(dc_frames)].next = top.next + 1])
    /\ UNCHANGED <<todo, not_dvars>>

\* validation.rs:125-126 the innermost call is through its fallbacks: path.pop()
\* and Ok(()); validation.rs:93 after the last pool validate_proxy_pools
\* returns Ok(())
DetectReturn ==
    /\ validation.state = "detecting"
    /\ dc_frames # << >>
    /\ LET top == dc_frames[Len(dc_frames)]
       IN top.next > Len(FallbacksOf(top.pool))
    /\ dc_frames' = SubSeq(dc_frames, 1, Len(dc_frames) - 1)
    /\ validation' = IF Len(dc_frames) = 1 /\ todo = {}
                     THEN [validation EXCEPT !.state = "Ok"]
                     ELSE validation
    /\ UNCHANGED <<todo, dc_visited, not_dvars>>

(***************************************************************************)
(* validate_manifest (src/src/api/validation.rs)                           *)
(***************************************************************************)
\* the limits written into validate_manifest
MaxResourcesPerManifest == 1000
MaxNameBytes == 128
MaxHeaders == 10
MaxHeaderValueBytes == 1024
MaxTags == 10
MaxTagValueBytes == 1024

\* a String: what it reads, its length in bytes, whether it holds a NUL
Str(text, len, nul) == [text |-> text, len |-> len, nul |-> nul]

\* a url is the sequence of its characters
Chars(scheme) == scheme \o <<"e", ".", "c", "o", "m">>

HttpPrefix == <<"h", "t", "t", "p", ":", "/", "/">>
HttpsPrefix == <<"h", "t", "t", "p", "s", ":", "/", "/">>
FtpPrefix == <<"f", "t", "p", ":", "/", "/">>

\* str::starts_with
starts_with(str, prefix) == IsPrefix(prefix, str)

\* serde_json::Value::is_object, on the kind of a JSON value
is_object(value) == value = "object"

\* Option<Value>::None
Absent == "absent"

\* validation.rs verdicts: Ok(()) or the ManifestValidationError with the
\* resource name and header or tag key it carries
Verdict(err, name, key) == [err |-> err, name |-> name, key |-> key]

NoName == Str("", 0, FALSE)

ValidOk == Verdict("Ok", NoName, 0)

\* a bound that rejects the longest name allowed
name_too_long_AtLimit(name) == name.len >= MaxNameBytes

\* validation.rs:53 resource.name.len() > 128
name_too_long(name) == name.len > MaxNameBytes

\* the position of the first value of a map, in key order, that satisfies bad;
\* 0 when there is none
FirstKey(map, bad(_)) ==
    IF \E k \in DOMAIN map : bad(map[k])
    THEN CHOOSE k \in DOMAIN map :
            bad(map[k]) /\ \A j \in DOMAIN map : bad(map[j]) => k <= j
    ELSE 0

\* validation.rs:76-88 a header value over 1024 bytes or holding a NUL
bad_header_value(value) == value.len > MaxHeaderValueBytes \/ value.nul

\* validation.rs:98 a tag value over 1024 bytes
bad_tag_value(value) == value.len > MaxTagValueBytes

\* validation.rs:53-104 the body of the loop for one resource, seen holding
\* the names of the resources before it
validate_resource(resource, seen) ==
    IF name_too_long(resource.name)
    THEN Verdict("ResourceNameTooLong", resource.name, 0)
    ELSE IF resource.name \in seen
    THEN Verdict("DuplicateResourceNames", NoName, 0)
    ELSE IF ~starts_with(resource.url, HttpPrefix)
            /\ ~starts_with(resource.url, HttpsPrefix)
    THEN Verdict("InvalidResourceUrl", resource.name, 0)
    ELSE IF Len(resource.headers) > MaxHeaders
    THEN Verdict("HeaderLimitExceeded", resource.name, 0)
    ELSE IF FirstKey(resource.headers, bad_header_value) # 0
    THEN Verdict("HeaderValueTooLarge", resource.name,
                 FirstKey(resource.headers, bad_header_value))
    ELSE IF Len(resource.tags) > MaxTags
    THEN Verdict("TagLimitExceeded", resource.name, 0)
    ELSE IF FirstKey(resource.tags, bad_tag_value) # 0
    THEN Verdict("TagValueTooLarge", resource.name,
                 FirstKey(resource.tags, bad_tag_value))
    ELSE ValidOk

\* validation.rs:51-105 the loop over the resources: it returns at the first
\* resource that fails a check; every resource before it passed and left its
\* name in seen
validate_resources(resources) ==
    LET seen(i) == {resources[j].name : j \in 1..(i - 1)}
        fails(i) == validate_resource(resources[i], seen(i)) # ValidOk
    IN IF \E i \in DOMAIN resources : fails(i)
       THEN LET first == CHOOSE i \in DOMAIN resources :
                            fails(i) /\ \A j \in 1..(i - 1) : ~fails(j)
            IN validate_resource(resources[first], seen(first))
       ELSE ValidOk

\* validation.rs:32-108 validate_manifest
validate_manifest(m) ==
    IF m.manifest_version # "v1" THEN Verdict("UnsupportedVersion", NoName, 0)
    ELSE IF ~is_object(m.metadata) THEN Verdict("InvalidMetadata", NoName, 0)
    ELSE IF Len(m.resources) \notin 1..MaxResourcesPerManifest
    THEN Verdict("InvalidResourceCount", NoName, 0)
    ELSE IF m.attributes # Absent /\ ~is_object(m.attributes)
    THEN Verdict("InvalidAttributes", NoName, 0)
    ELSE validate_resources(m.resources)

\* services.rs:113-117 format!("{}{}", resource_key_prefix, manifest_file)
StorageKeyOf(m) == m.storage.resource_key_prefix \o m.storage.manifest_file

NotValidated == Verdict("none", NoName, 0)

NoStorageKey == <<"none">>

\* services.rs:105 validate_manifest(&manifest)
ValidateManifest ==
    /\ verdict = NotValidated
    /\ verdict' = validate_manifest(manifest)
    /\ UNCHANGED <<manifest, storage_key, not_fvars>>

\* services.rs:113-117 a manifest that passed: the key it is uploaded under
MakeStorageKey ==
    /\ verdict = ValidOk
    /\ storage_key = NoStorageKey
    /\ storage_key' = StorageKeyOf(manifest)
    /\ UNCHANGED <<manifest, verdict, not_fvars>>

(***************************************************************************)
(* The manifests checked.                                                  *)
(***************************************************************************)
\* n values of len bytes each
Values(n, len) == [k \in 1..n |-> Str(k, len, FALSE)]

\* header maps: full to both limits, one entry too many, one value a byte too
\* long, one value with a NUL
HeaderMaps ==
    {Values(MaxHeaders, MaxHeaderValueBytes), Values(MaxHeaders + 1, 1),
     Values(1, MaxHeaderValueBytes + 1), <<Str(1, 1, FALSE), Str(2, 1, TRUE)>>}

TagMaps ==
    {Values(MaxTags, MaxTagValueBytes), Values(MaxTags + 1, 1),
     <<Str(1, 1, FALSE), Str(2, MaxTagValueBytes + 1, FALSE)>>}

Names ==
    {Str("a", MaxNameBytes, FALSE), Str("b", 1, FALSE),
     Str("c", MaxNameBytes + 1, FALSE)}

Urls == {Chars(HttpPrefix), Chars(HttpsPrefix), Chars(FtpPrefix)}

Resources == [name : Names, url : Urls, headers : HeaderMaps, tags : TagMaps]

\* the i-th of many plain resources
Plain(i) ==
    [name |-> Str(i, 8, FALSE), url |-> Chars(HttpsPrefix), headers |-> << >>,
     tags |-> << >>]

ResourceLists ==
    SeqsUpTo(Resources, 2)
        \cup {[i \in 1..n |-> Plain(i)] :
                 n \in {MaxResourcesPerManifest, MaxResourcesPerManifest + 1}}

StorageConfigs ==
    [manifest_file : {<<"m", ".", "j", "s", "o", "n">>, << >>},
     resource_key_prefix : {<<"p", "/">>, << >>}]

Manifests ==
    [manifest_version : {"v1", "v2"}, storage : StorageConfigs,
     metadata : {"object", "null"}, resources : ResourceLists,
     attributes : {Absent, "object", "array"}]

(***************************************************************************)
(* ingest_job: the checks of one request (src/src/api/services.rs:46-108)  *)
(***************************************************************************)
\* 1024 * 1024
MiB == 1048576

\* services.rs:13 const MAX_PAYLOAD_SIZE: usize = 5 * 1024 * 1024
MAX_PAYLOAD_SIZE == 5242880

\* config/models.rs:74 the default of server.api.max_payload_bytes: 5 MiB
default_max_payload_bytes == 5242880

\* the values of server.api.max_payload_bytes checked: config validation
\* admits any size up to 5 MiB
PayloadLimits == {default_max_payload_bytes, 1 * MiB}

\* handlers/registry.rs with_defaults (what run() installs) and new (empty)
Registries == {{"default", "gallery"}, {}}

\* a header value that parses as a media type
Media(type, subtype) == [kind |-> "media", type |-> type, subtype |-> subtype]

\* no such header, a value that is no media type
NoMedia(kind) == [kind |-> kind, type |-> "", subtype |-> ""]

ContentTypes ==
    {NoMedia(Absent), NoMedia("malformed"), Media("application", "json"),
     Media("application", "jsonp"), Media("text", "json")}

\* X-Fetchbox-Tenant and X-Fetchbox-Idempotency-Key: missing, empty, set
TenantHeaders == {Absent, "", "acme"}
KeyHeaders == {Absent, ""} \cup Keys

\* utils.rs:20-34 parse_content_type
parse_content_type(h) ==
    IF h.kind # "media" THEN "InvalidPayload"
    ELSE IF h.type # "application" \/ h.subtype # "json" THEN "InvalidPayload"
    ELSE "Ok"

\* services.rs:70-82 .map(str::to_owned).filter(|value| !value.is_empty())
non_empty(h) == IF h = "" THEN Absent ELSE h

\* utils.rs:37-42 validate_body_size
validate_body_size(len, max_size) == IF len > max_size THEN "PayloadTooLarge" ELSE "Ok"

\* error.rs:22-30 ApiError::status_code
status_code(err) ==
    CASE err = "InvalidPayload" -> 400
      [] err = "PayloadTooLarge" -> 413
      [] err = "UnsupportedJobType" -> 403
      [] err = "NotFound" -> 404
      [] err = "Internal" -> 500

\* error.rs:32-40 ApiError::code
code(err) ==
    CASE err = "InvalidPayload" -> "INVALID_PAYLOAD"
      [] err = "PayloadTooLarge" -> "PAYLOAD_TOO_LARGE"
      [] err = "UnsupportedJobType" -> "UNSUPPORTED_JOB_TYPE"
      [] err = "NotFound" -> "NOT_FOUND"
      [] err = "Internal" -> "INTERNAL_ERROR"

\* error.rs:43-52 into_response
into_response(err) == [status |-> status_code(err), code |-> code(err)]

\* services.rs:89-95 (StatusCode::ACCEPTED, Json(response))
Accepted == [status |-> 202, code |-> ""]

NoAnswer == [status |-> 0, code |-> ""]

\* a manifest that passes validate_manifest, and one that does not
GoodManifest ==
    [manifest_version |-> "v1",
     storage |-> [manifest_file |-> <<"m", ".", "j", "s", "o", "n">>,
                  resource_key_prefix |-> <<"p", "/">>],
     metadata |-> "object", resources |-> <<Plain(1)>>, attributes |-> Absent]

BadManifest == [GoodManifest EXCEPT !.manifest_version = "v2"]

\* no manifest: the body is not the JSON of one
EmptyManifest ==
    [manifest_version |-> "",
     storage |-> [manifest_file |-> << >>, resource_key_prefix |-> << >>],
     metadata |-> "null", resources |-> << >>, attributes |-> Absent]

\* body lengths around the limits
BodySizes == {100, 1 * MiB, 1 * MiB + 1, 5 * MiB, 5 * MiB + 1}

\* a body: its length in bytes, whether serde_json parses it into a Manifest,
\* and the manifest it then yields
RequestBodies ==
    {[size |-> n, json |-> FALSE, manifest |-> EmptyManifest] : n \in BodySizes}
        \cup [size : BodySizes, json : {TRUE}, manifest : {GoodManifest, BadManifest}]

Requests ==
    [content_type : ContentTypes, tenant : TenantHeaders, key : KeyHeaders,
     body : RequestBodies]

(***************************************************************************)
(* FjallStore called directly (src/src/ledger/store.rs, pruning.rs)        *)
(***************************************************************************)
\* pruning.rs:12-14 the retention constants, in days
RETENTION_JOBS_DAYS == 30
RETENTION_LOGS_DAYS == 30
RETENTION_IDEMPOTENCY_DAYS == 14

SecondsPerDay == 86400

\* the wall clock when the store is opened, in seconds since the epoch
StartSecs == 1700000000

HalfSecond == 500000000

\* chrono::DateTime<Utc>: whole seconds since the epoch and the nanoseconds
\* within the second
DateTime(secs, nanos) == [secs |-> secs, nanos |-> nanos]

\* models.rs:97 chrono::serde::ts_seconds::serialize: dt.timestamp()
ts_seconds_serialize_Rounded(dt) == IF dt.nanos >= HalfSecond THEN dt.secs + 1 ELSE dt.secs

ts_seconds_serialize(dt) == dt.secs

\* chrono::serde::ts_seconds::deserialize: the instant at a whole second
ts_seconds_deserialize(secs) == DateTime(secs, 0)

\* models.rs:118-126 JobError
JobError(name, err, dt) ==
    [resource_name |-> name, code |-> err, message |-> "failed", timestamp |-> dt]

\* store.rs:57 serde_json::to_vec(&snapshot): the stored form of a snapshot,
\* the timestamps written as whole seconds
to_vec(snapshot) ==
    [snapshot EXCEPT
        !.created_at = ts_seconds_serialize(snapshot.created_at),
        !.updated_at = ts_seconds_serialize(snapshot.updated_at),
        !.errors = [i \in DOMAIN snapshot.errors |->
                       [snapshot.errors[i] EXCEPT
                           !.timestamp = ts_seconds_serialize(snapshot.errors[i].timestamp)]]]

\* store.rs:68 serde_json::from_slice(&value)
from_slice(value) ==
    [value EXCEPT
        !.created_at = ts_seconds_deserialize(value.created_at),
        !.updated_at = ts_seconds_deserialize(value.updated_at),
        !.errors = [i \in DOMAIN value.errors |->
                       [value.errors[i] EXCEPT
                           !.timestamp = ts_seconds_deserialize(value.errors[i].timestamp)]]]

\* Option<JobSnapshot>
NoneSnapshot == [some |-> FALSE, value |-> from_slice(NoSnapshot)]
SomeSnapshot(snapshot) == [some |-> TRUE, value |-> snapshot]

\* the keys the store is called with
LedgerKeys == {"k1", "k2"}

\* pruning.rs:22-27 PruneStats
PruneStats(j, l, i) == [jobs_pruned |-> j, logs_pruned |-> l, idempotency_pruned |-> i]

\* no cursor stored under a metadata key; a stored value that is no number
NoCursor == None
Unparsable == -2

NoLedgerMeta ==
    [last_prune_jobs |-> NoCursor, last_prune_logs |-> NoCursor,
     last_prune_idem |-> NoCursor]

\* a call of the store: its number, the method, its arguments, what it
\* returned, and the last_prune_idem cursor prune_expired found
LedgerCall(n, op, job, key, snap, id, stats, cursor) ==
    [n |-> n, op |-> op, job |-> job, key |-> key, snap |-> snap, id |-> id,
     stats |-> stats, cursor |-> cursor]

NoLedgerCall ==
    LedgerCall(0, "none", 0, "", NoneSnapshot, None, PruneStats(0, 0, 0), NoCursor)

\* the call returns: what the next state records of it
CallReturns(op, job, key, snap, id, stats) ==
    ledger_call' =
        LedgerCall(ledger_call.n + 1, op, job, key, snap, id, stats,
                   IF op = "prune_expired" THEN ledger_meta.last_prune_idem
                   ELSE NoCursor)

\* the snapshots upsert is called with at the present time
SnapshotsNow ==
    {[job_id |-> j, status |-> st, created_at |-> wall_clock, updated_at |-> wall_clock,
      resource_total |-> 1, resource_completed |-> 0, resource_failed |-> Len(errs),
      manifest_key |-> <<"m">>, errors |-> errs, tenant |-> "acme"] :
        j \in JobIds, st \in {"Queued", "Failed"},
        errs \in {<< >>, <<JobError("r1", "FETCH_FAILED", wall_clock)>>}}

\* store.rs:55-61 upsert
LedgerUpsert(snapshot) ==
    /\ jobs' = [jobs EXCEPT ![snapshot.job_id] = to_vec(snapshot)]
    /\ written' = [written EXCEPT !.snap[snapshot.job_id] = SomeSnapshot(snapshot)]
    /\ CallReturns("upsert", snapshot.job_id, "", NoneSnapshot, None, PruneStats(0, 0, 0))
    /\ UNCHANGED <<idem, wall_clock, ledger_meta, not_gvars>>

\* store.rs:64-73 get
get(job_id) ==
    IF jobs[job_id] = NoSnapshot THEN NoneSnapshot
    ELSE SomeSnapshot(from_slice(jobs[job_id]))

LedgerGet(job_id) ==
    /\ CallReturns("get", job_id, "", get(job_id), None, PruneStats(0, 0, 0))
    /\ UNCHANGED <<jobs, idem, wall_clock, ledger_meta, written, not_gvars>>

\* store.rs:76-81 remember_idempotency
RememberIdempotency(key, job_id) ==
    /\ idem' = [idem EXCEPT ![key] = job_id]
    /\ written' = [written EXCEPT !.id[key] = job_id]
    /\ CallReturns("remember_idempotency", job_id, key, NoneSnapshot, None, PruneStats(0, 0, 0))
    /\ UNCHANGED <<jobs, wall_clock, ledger_meta, not_gvars>>

\* store.rs:84-93 get_idempotent
get_idempotent(key) == idem[key]

GetIdempotent(key) ==
    /\ CallReturns("get_idempotent", 0, key, NoneSnapshot, get_idempotent(key), PruneStats(0, 0, 0))
    /\ UNCHANGED <<jobs, idem, wall_clock, ledger_meta, written, not_gvars>>

\* pruning.rs:56-89 prune_jobs: the entries it removes
prune_jobs(partition) == {}

\* pruning.rs:92-114 prune_logs: the number of entries it removes
prune_logs == 0

\* pruning.rs:121-125 cutoff_secs
idem_cutoff_secs == wall_clock.secs - RETENTION_IDEMPOTENCY_DAYS * SecondsPerDay

\* pruning.rs:139-156 whether prune_idempotency clears the partition
clears_idempotency_StoredOnly(cursor) ==
    cursor # NoCursor /\ cursor # Unparsable /\ cursor < idem_cutoff_secs

clears_idempotency(cursor) ==
    IF cursor # NoCursor
    THEN cursor # Unparsable /\ cursor < idem_cutoff_secs
    ELSE TRUE

\* store.rs:96-107, pruning.rs:30-53 prune_expired
PruneExpired ==
    LET gone == prune_jobs(jobs)
        drained == IF clears_idempotency(ledger_meta.last_prune_idem)
                   THEN {k \in DOMAIN idem : idem[k] # None} ELSE {}
    IN /\ jobs' = [j \in DOMAIN jobs |-> IF j \in gone THEN NoSnapshot ELSE jobs[j]]
       /\ idem' = [k \in DOMAIN idem |-> IF k \in drained THEN None ELSE idem[k]]
       /\ ledger_meta' = [last_prune_jobs |-> wall_clock.secs, last_prune_logs |-> wall_clock.secs,
                          last_prune_idem |-> wall_clock.secs]
       /\ CallReturns("prune_expired", 0, "", NoneSnapshot, None,
                   PruneStats(Cardinality(gone), prune_logs, Cardinality(drained)))
       /\ written' = [snap |-> [j \in DOMAIN written.snap |->
                                    IF j \in gone THEN NoneSnapshot ELSE written.snap[j]],
                       id |-> [k \in DOMAIN written.id |->
                                  IF k \in drained THEN None ELSE written.id[k]]]
       /\ UNCHANGED <<wall_clock, not_gvars>>

\* the time that passes between two calls
Daytimes ==
    {RETENTION_IDEMPOTENCY_DAYS * SecondsPerDay,
     RETENTION_IDEMPOTENCY_DAYS * SecondsPerDay + 1,
     RETENTION_JOBS_DAYS * SecondsPerDay + 1}

\* SystemTime::now / Utc::now: the wall clock moves on
Tick(secs, nanos) ==
    /\ wall_clock' = DateTime(wall_clock.secs + secs, nanos)
    /\ UNCHANGED <<jobs, idem, ledger_meta, written, ledger_call, not_gvars>>

NothingWritten ==
    [snap |-> [j \in JobIds |-> NoneSnapshot], id |-> [k \in LedgerKeys |-> None]]

\* no call of the store has been made
LedgerIdle ==
    /\ wall_clock = DateTime(StartSecs, 0)
    /\ ledger_meta = NoLedgerMeta
    /\ written = NothingWritten
    /\ ledger_call = NoLedgerCall

(***************************************************************************)
(* FjallQueue: the dead letter queue (src/src/queue/store.rs:112-160)      *)
(***************************************************************************)
\* store.rs:195-201 now_ms: milliseconds since the epoch, as whole seconds
\* and the milliseconds within the second
now_ms == [secs |-> wall_clock.secs, millis |-> wall_clock.nanos \div 1000000]

\* store.rs:127-133 DeadLetterTask
DeadLetterTask(task, failure_code, failure_message, attempts, failed_at_ms) ==
    [task |-> [some |-> TRUE, value |-> task], failure_code |-> failure_code,
     failure_message |-> failure_message, attempts |-> attempts,
     failed_at_ms |-> failed_at_ms]

\* no entry under a key of the dlq partition
NoDlq ==
    [task |-> [some |-> FALSE, value |-> NoTask], failure_code |-> "",
     failure_message |-> "", attempts |-> 0,
     failed_at_ms |-> [secs |-> 0, millis |-> 0]]

\* Option<DeadLetterTask>
OptionDlq(entry) == [some |-> entry # NoDlq, value |-> entry]

\* GET /health has not been called
NoHealth ==
    [status_code |-> 0, status |-> "",
     components |-> [c \in {"api", "fjall", "task_broker", "storage"} |-> ""]]

\* the arguments move_to_dlq is called with
FailureCodes == {"NETWORK_ERROR", "HTTP_404"}
FailureMessages == {"Connection timeout", ""}
Attempts == {1, 3}

\* a call: its number, the method, its arguments, whether it returned Ok,
\* and what get_dlq_task returned
QueueCall(n, op, seq, failure_code, failure_message, attempts, ok, ret) ==
    [n |-> n, op |-> op, seq |-> seq, failure_code |-> failure_code,
     failure_message |-> failure_message, attempts |-> attempts, ok |-> ok,
     ret |-> ret]

NoQueueCall == QueueCall(0, "none", 0, "", "", 0, TRUE, OptionDlq(NoDlq))

\* store.rs:112-147 move_to_dlq with the removal of the task from the tasks
\* partition that the source leaves commented out; no counterpart for the
\* failing call, which is the same
MoveToDlq_Removing(seq, failure_code, failure_message, attempts) ==
    /\ get_task(seq) # NoTask
    /\ dlq' = [dlq EXCEPT ![seq] = DeadLetterTask(get_task(seq), failure_code,
                                                  failure_message, attempts, now_ms)]
    /\ tasks' = [tasks EXCEPT ![seq] = NoTask]
    /\ queue_call' = QueueCall(queue_call.n + 1, "move_to_dlq", seq, failure_code,
                               failure_message, attempts, TRUE, OptionDlq(NoDlq))
    /\ UNCHANGED <<meta_next_seq, seq_counter, lock, num_workers, channel_size,
                   next_worker, inbox, inbox_open, received, lvars, mvars, proc,
                   evars, hist, pools, rvars, dvars, fvars, uvars, gvars,
                   health_answer>>

\* store.rs:112-147 move_to_dlq
MoveToDlq(seq, failure_code, failure_message, attempts) ==
    /\ IF get_task(seq) = NoTask
       THEN /\ queue_call' = QueueCall(queue_call.n + 1, "move_to_dlq", seq,
                                       failure_code, failure_message, attempts,
                                       FALSE, OptionDlq(NoDlq))
            /\ UNCHANGED dlq
       ELSE /\ dlq' = [dlq EXCEPT ![seq] =
                          DeadLetterTask(get_task(seq), failure_code,
                                         failure_message, attempts, now_ms)]
            /\ queue_call' = QueueCall(queue_call.n + 1, "move_to_dlq", seq,
                                       failure_code, failure_message, attempts,
                                       TRUE, OptionDlq(NoDlq))
    /\ UNCHANGED not_kvars

\* store.rs:150-159 get_dlq_task
get_dlq_task(seq) == IF seq \in DOMAIN dlq THEN OptionDlq(dlq[seq]) ELSE OptionDlq(NoDlq)

GetDlqTask(seq) ==
    /\ queue_call' = QueueCall(queue_call.n + 1, "get_dlq_task", seq, "", "", 0,
                               TRUE, get_dlq_task(seq))
    /\ UNCHANGED <<dlq, not_kvars>>

\* no call of the dead letter queue has been made, none of GET /health
DlqIdle ==
    /\ dlq = [s \in SeqIds |-> NoDlq]
    /\ queue_call = NoQueueCall
    /\ health_answer = NoHealth

(***************************************************************************)
(* GET /health (src/src/api/services.rs:263-307)                           *)
(***************************************************************************)
\* broker.rs:121-124 TaskBroker::health_check
health_check == \A w \in Workers : inbox_open[w]

\* services.rs:276-279 the components and what the handler enters for each
components ==
    [c \in {"api", "fjall", "task_broker", "storage"} |-> "healthy"]

\* services.rs:284-307 the response: status code, overall status, components
health ==
    LET all_healthy == \A c \in DOMAIN components : components[c] = "healthy"
    IN [status_code |-> IF all_healthy THEN 200 ELSE 503,
        status |-> IF all_healthy THEN "healthy" ELSE "unhealthy",
        components |-> components]

\* services.rs:271 health: the handler answers
GetHealth ==
    /\ health_answer = NoHealth
    /\ health_answer' = health
    /\ UNCHANGED not_health

(***************************************************************************)
(* Init: the state after server bootstrap on empty directories.            *)
(***************************************************************************)
InitHist ==
    [returned |-> {}, closedSel |-> {}, sent |-> [w \in Workers |-> <<>>],
     ncalls |-> 0, seqOnly |-> TRUE, runFault |-> FALSE,
     dirty |-> FALSE, nOk |-> 0, enqLog |-> [s \in SeqIds |-> NoTask],
     reused |-> FALSE, failed |-> {},
     lastOk |-> [k \in Keys |-> NoResp], alone |-> [k \in Keys |-> TRUE]]

\* api/server.rs run(): the stores are opened on what the disk holds (the
\* tasks and next_seq of the queue, the jobs and idempotency keys of the
\* ledger), the broker is built, nothing is in flight
ServerUp(tasks0, meta0, jobs0, idem0, clock0) ==
    /\ tasks = tasks0
    /\ meta_next_seq = meta0
    /\ seq_counter = OpenCounter(meta0)
    /\ lock = Free
    /\ \E c \in BrokerConfigs :
          /\ num_workers = c.num_workers
          /\ channel_size = c.channel_size
    /\ next_worker = 0
    /\ inbox = [w \in Workers |-> <<>>]
    /\ inbox_open = [w \in Workers |-> TRUE]
    /\ received = [w \in Workers |-> <<>>]
    /\ jobs = jobs0
    /\ idem = idem0
    /\ objstore = {}
    /\ job_clock = clock0
    /\ tasks_published = 0
    /\ jobs_accepted = 0
    /\ proc = [p \in Procs |-> IdleProc]
    /\ tasks_left = MaxTasks
    /\ faults_left = MaxFaults
    /\ restarts = 0
    /\ hist = InitHist

\* the server on empty directories
PipelineInit ==
    ServerUp([s \in SeqIds |-> NoTask], None, [j \in JobIds |-> NoSnapshot],
             [k \in Keys |-> None], 0)

\* resolve has not been called
ResolverIdle ==
    /\ root = << >>
    /\ visited = {}
    /\ tiers = << >>
    /\ frames = << >>
    /\ result = NoResult
    /\ resolved = {}

\* validate_proxy_pools has not been called
ValidatorIdle ==
    /\ todo = {}
    /\ dc_visited = {}
    /\ dc_frames = << >>
    /\ validation = NoValidation

\* no request body has been parsed
NoManifest ==
    /\ manifest = EmptyManifest
    /\ verdict = NotValidated
    /\ storage_key = NoStorageKey

\* no request is being checked; the server runs as run() sets it up
NoRequest ==
    /\ registry = {"default", "gallery"}
    /\ max_payload_bytes = default_max_payload_bytes
    /\ request = [content_type |-> NoMedia(Absent), tenant |-> Absent,
                  key |-> Absent,
                  body |-> [size |-> 0, json |-> FALSE, manifest |-> EmptyManifest]]
    /\ position = "idle"
    /\ checked = << >>
    /\ answer = NoAnswer

\* the server with pools that name no fallbacks
Init ==
    /\ PipelineInit
    /\ pools = PoolsOf([n \in PoolNames |-> << >>])
    /\ ResolverIdle
    /\ ValidatorIdle
    /\ NoManifest
    /\ NoRequest
    /\ LedgerIdle
    /\ DlqIdle

(***************************************************************************)
(* ingest_job (src/src/api/services.rs)                                    *)
(***************************************************************************)
SameKeyInFlight(p, k) == \E q \in Procs \ {p} : InFlight(q) /\ proc[q].key = k

\* what a finished request with idempotency key k leaves in the observation
NoteDone(k, status, resp) ==
    IF k = NoKey THEN hist
    ELSE [hist EXCEPT !.lastOk[k] = IF status = 202 THEN resp ELSE NoResp]

\* services.rs:232-244 read_body, services.rs:104-105 parse and validate, and
\* error.rs status_code: PayloadTooLarge is 413, InvalidPayload is 400
BodyStatus(body) == IF body = "too_large" THEN 413 ELSE 400

\* services.rs:101-108 on an idempotency miss: read_body, parse,
\* validate_manifest; a body that fails is answered 400, a good one goes on to
\* the upload
AfterMiss(r) ==
    IF r.body = "ok" THEN [r EXCEPT !.pc = "upload"] ELSE Fail(r, BodyStatus(r.body))

NoteAfterMiss(r) ==
    IF r.body = "ok" THEN hist ELSE NoteDone(r.key, BodyStatus(r.body), NoResp)

\* a request arrives (services.rs:46-82) and takes the first free slot: the
\* headers carry the tenant and, optionally, an idempotency key; job is the id
\* Uuid::now_v7 will give it
Arrive(p, hdr, tenant, k, body, n, skey) ==
    /\ tasks_left >= n
    /\ LET solo == k # NoKey /\ ~SameKeyInFlight(p, k)
           exp == IF solo /\ hist.alone[k] THEN hist.lastOk[k] ELSE NoResp
           r == [IdleProc EXCEPT !.pc = "idem", !.tenant = tenant, !.key = k,
                                 !.body = body, !.n = n, !.skey = skey,
                                 !.expect = exp, !.job = job_clock + 1]
       IN IF hdr # "ok"
          THEN \* services.rs:48-75: a header check fails, 400
               /\ proc' = [proc EXCEPT ![p] = Fail([IdleProc EXCEPT !.key = k], 400)]
               /\ UNCHANGED <<hist, tasks_left>>
          ELSE /\ tasks_left' = tasks_left - n
               /\ IF k # NoKey
                  THEN /\ proc' = [proc EXCEPT ![p] = r]
                       /\ hist' = [hist EXCEPT !.alone[k] = solo]
                  ELSE /\ proc' = [proc EXCEPT ![p] = AfterMiss(r)]
                       /\ UNCHANGED hist
    /\ job_clock' = job_clock + 1
    /\ UNCHANGED <<qvars, bvars, jobs, idem, objstore, mvars, faults_left, restarts>>

\* slot p is free and takes the next request, whatever it carries
StartRequest(p) ==
    /\ proc[p].pc \in {"idle", "done"}
    /\ \A q \in Procs : q < p => InFlight(q)
    /\ job_clock < MaxReqs
    /\ \E hdr \in Headers, tenant \in Tenants, k \in Keys \cup {NoKey},
          body \in Bodies, n \in 1..MaxRes, skey \in StorageKeys :
             Arrive(p, hdr, tenant, k, body, n, skey)

\* services.rs:87 store.get_idempotent(key)
IdemLookup(p) ==
    /\ proc[p].pc = "idem"
    /\ LET r == proc[p]
       IN IF idem[r.key] # None
          THEN /\ proc' = [proc EXCEPT ![p] =
                              [r EXCEPT !.pc = "idem_get", !.cand = idem[r.key]]]
               /\ UNCHANGED hist
          ELSE /\ proc' = [proc EXCEPT ![p] = AfterMiss(r)]
               /\ hist' = NoteAfterMiss(r)
    /\ UNCHANGED <<qvars, bvars, lvars, mvars, evars>>

\* a lookup that replays whatever job id the key maps to
IdemHit_Always(snap) == TRUE

\* a lookup that never finds the stored snapshot
IdemHit_Never(snap) == FALSE

\* whether the stored snapshot makes the request a replay
IdemHit(snap) == snap # NoSnapshot

\* services.rs:88-96 store.get(existing_job_id): on a hit the stored job is returned
IdemGet(p) ==
    /\ proc[p].pc = "idem_get"
    /\ LET r == proc[p]
           snap == jobs[r.cand]
       IN IF IdemHit(snap)
          THEN /\ proc' = [proc EXCEPT ![p] =
                     Respond(r, 202, "replay", r.cand, snap.manifest_key,
                             snap.resource_total)]
               /\ hist' = NoteDone(r.key, 202,
                     [job |-> r.cand, mkey |-> snap.manifest_key,
                      count |-> snap.resource_total])
          ELSE /\ proc' = [proc EXCEPT ![p] =
                              AfterMiss([r EXCEPT !.cand = None, !.orphan = r.cand])]
               /\ hist' = NoteAfterMiss(r)
    /\ UNCHANGED <<qvars, bvars, lvars, mvars, evars>>

\* the snapshot written before the idempotency record
NextStage_SnapFirst(stage, k) ==
    CASE stage = "upload" -> "upsert"
      [] stage = "upsert" -> IF k # NoKey THEN "remember" ELSE "enqueue"
      [] stage = "remember" -> "enqueue"

\* the order of the writes of one request: upload, idempotency record (if a
\* key was given), snapshot, tasks
NextStage(stage, k) ==
    CASE stage = "upload" -> IF k # NoKey THEN "remember" ELSE "upsert"
      [] stage = "remember" -> "upsert"
      [] stage = "upsert" -> "enqueue"

\* services.rs:118-122 storage.upload
Upload(p) ==
    /\ proc[p].pc = "upload"
    /\ LET r == proc[p]
       IN \/ /\ objstore' = objstore \cup {r.skey}
             /\ proc' = [proc EXCEPT ![p].pc = NextStage("upload", r.key),
                                     ![p].uploads = r.uploads + 1]
             /\ UNCHANGED <<hist, faults_left>>
          \/ /\ faults_left > 0
             /\ faults_left' = faults_left - 1
             /\ proc' = [proc EXCEPT ![p] = Internal(r)]
             /\ hist' = NoteDone(r.key, 500, NoResp)
             /\ UNCHANGED objstore
    /\ UNCHANGED <<qvars, bvars, jobs, idem, job_clock, mvars, tasks_left,
                   restarts>>

\* services.rs:147-157 store.remember_idempotency(key, job_id)
Remember(p) ==
    /\ proc[p].pc = "remember"
    /\ LET r == proc[p]
       IN \/ /\ idem' = [idem EXCEPT ![r.key] = r.job]
             /\ proc' = [proc EXCEPT ![p].pc = NextStage("remember", r.key),
                                     ![p].wlog = Append(r.wlog, <<"idem", 0>>)]
             /\ UNCHANGED <<hist, faults_left>>
          \/ /\ faults_left > 0
             /\ faults_left' = faults_left - 1
             /\ proc' = [proc EXCEPT ![p] = Internal(r)]
             /\ hist' = NoteDone(r.key, 500, NoResp)
             /\ UNCHANGED idem
    /\ UNCHANGED <<qvars, bvars, jobs, objstore, job_clock, mvars, tasks_left,
                   restarts>>

\* services.rs:160-163 store.upsert(snapshot); the handler then builds the tasks
Upsert(p) ==
    /\ proc[p].pc = "upsert"
    /\ LET r == proc[p]
       IN \/ /\ jobs' = [jobs EXCEPT ![r.job] = Snapshot(r, job_clock)]
             /\ proc' = [proc EXCEPT ![p].pc = NextStage("upsert", r.key),
                                     ![p].idx = IF r.idx = 0 THEN 1 ELSE r.idx,
                                     ![p].wlog = Append(r.wlog, <<"snap", 0>>)]
             /\ UNCHANGED <<hist, faults_left>>
          \/ /\ faults_left > 0
             /\ faults_left' = faults_left - 1
             /\ proc' = [proc EXCEPT ![p] = Internal(r)]
             /\ hist' = NoteDone(r.key, 500, NoResp)
             /\ UNCHANGED jobs
    /\ UNCHANGED <<qvars, bvars, idem, objstore, job_clock, mvars, tasks_left,
                   restarts>>

(***************************************************************************)
(* TaskBroker::enqueue, called by ingest_job for each task in turn         *)
(* (services.rs:196-209, broker.rs:78-114, store.rs:80-98)                 *)
(***************************************************************************)
\* a counter read that does not advance it
FetchAdd_Stuck(c) == c

\* seq_counter.fetch_add(1): the value left in the counter
FetchAdd(c) == c + 1

\* the largest sequence number returned so far in this run
ReturnedMax == IF hist.returned = {} THEN None ELSE SetMax(hist.returned)

\* a queue entered without waiting for the write lock
WriteLockAcquired_Unlocked(l) == TRUE

\* broker.rs:81 self.queue.write().await completes when no guard is held
WriteLockAcquired(l) == l = Free

\* broker.rs:81-82 + store.rs:82-89: take the write lock, fetch_add the counter,
\* insert the encoded task under tasks/seq. A failed insert returns Err through
\* the broker to ingest_job (500); the guard is dropped on the way out.
QueueInsertTask(p) ==
    /\ proc[p].pc = "enqueue"
    /\ WriteLockAcquired(lock)
    /\ LET r == proc[p]
           seq == seq_counter
           task == Task(r, r.idx)
           h1 == [hist EXCEPT !.ncalls = @ + 1,
                              !.seqOnly = @ /\ ~(\E q \in Procs \ {p} : InCall(q))]
       IN /\ seq_counter' = FetchAdd(seq_counter)
          /\ \/ /\ tasks' = [tasks EXCEPT ![seq] = task]
                /\ lock' = p
                /\ proc' = [proc EXCEPT ![p].pc = "qmeta", ![p].seq = seq,
                                        ![p].floor = ReturnedMax,
                                        ![p].callk = hist.ncalls,
                                        ![p].wlog = Append(r.wlog, <<"task", r.idx>>),
                                        ![p].seqs = Append(r.seqs, seq)]
                /\ hist' = [h1 EXCEPT !.reused = @ \/ tasks[seq] # NoTask]
                /\ UNCHANGED faults_left
             \/ /\ faults_left > 0
                /\ faults_left' = faults_left - 1
                /\ proc' = [proc EXCEPT ![p] = Internal(r)]
                /\ hist' = [NoteDone(r.key, 500, NoResp) EXCEPT
                               !.ncalls = h1.ncalls, !.seqOnly = h1.seqOnly,
                               !.runFault = TRUE, !.dirty = TRUE,
                               !.failed = @ \cup {seq}]
                /\ UNCHANGED <<tasks, lock>>
    /\ UNCHANGED <<meta_next_seq, bvars, lvars, mvars, tasks_left,
                   restarts>>

\* a write guard kept by the caller after the block
GuardDropped_Held(p) == p

\* broker.rs:80-83: the write guard lives in the block that persists the task
\* and is dropped at its end, on Ok and on the early return of `?` alike
GuardDropped(p) == Free

\* store.rs:92-97: persist next_seq = seq + 1, return Ok(seq); the broker
\* releases the lock (broker.rs:83). A failed insert returns Err (500) with the
\* task already in the tasks partition.
QueueInsertMeta(p) ==
    /\ proc[p].pc = "qmeta"
    /\ LET r == proc[p]
       IN \/ /\ meta_next_seq' = NextSeqFor(r.seq)
             /\ proc' = [proc EXCEPT ![p].pc = "select"]
             /\ hist' = [hist EXCEPT !.nOk = @ + 1,
                                     !.enqLog[r.seq] = Task(r, r.idx)]
             /\ UNCHANGED faults_left
          \/ /\ faults_left > 0
             /\ faults_left' = faults_left - 1
             /\ proc' = [proc EXCEPT ![p] = Internal(r)]
             /\ hist' = [NoteDone(r.key, 500, NoResp) EXCEPT
                            !.runFault = TRUE, !.dirty = TRUE,
                            !.failed = @ \cup {r.seq}]
             /\ UNCHANGED meta_next_seq
    /\ lock' = GuardDropped(p)
    /\ UNCHANGED <<tasks, seq_counter, bvars, lvars, mvars, tasks_left,
                   restarts>>

\* broker.rs:99 worker_idx = next_worker.fetch_add(1) % worker_channels.len()
BrokerSelect(p) ==
    /\ proc[p].pc = "select"
    /\ LET w == WorkerIdx(next_worker)
       IN proc' = [proc EXCEPT ![p].pc = "send", ![p].widx = w,
                               ![p].waited = inbox_open[w] /\ ~HasCapacity(w)]
    /\ next_worker' = next_worker + 1
    /\ UNCHANGED <<qvars, cvars, inbox, inbox_open, received, lvars, mvars, evars,
                   hist>>

\* an envelope stamped with the next sequence number
EnvelopeFor_Next(r) == Envelope(r.seq + 1, Task(r, r.idx))

\* broker.rs:93 the envelope of the task just persisted
EnvelopeFor(r) == Envelope(r.seq, Task(r, r.idx))

\* a send that falls back to another open inbox when the selected one is closed
SendTarget_Retry(w) ==
    IF inbox_open[w] THEN w
    ELSE IF \E v \in Workers : inbox_open[v]
         THEN CHOOSE v \in Workers : inbox_open[v]
         ELSE None

\* the inbox an envelope ends in: the selected one, and none when it is closed
\* (broker.rs:107-112: no retry to another worker)
SendTarget(w) == IF inbox_open[w] THEN w ELSE None

\* observability.rs:18-31 Metrics::job_accepted, Metrics::task_published
job_accepted(c) == c + 1

task_published(c) == c + 1

\* the job counted with every task
AcceptedAfter_EachTask(c, r) == job_accepted(c)

\* services.rs:211 job_accepted() runs once, after the loop over the tasks
AcceptedAfter(c, r) == IF r.idx >= r.n THEN job_accepted(c) ELSE c

\* services.rs:208-220 after Broker.enqueue returned Ok: count the task, go on
\* with the next one, and after the last count the job and answer 202
AfterEnqueueOk(r) ==
    IF r.idx < r.n
    THEN [r EXCEPT !.pc = "enqueue", !.idx = r.idx + 1, !.seq = None,
                   !.widx = None, !.floor = None, !.callk = None,
                   !.waited = FALSE]
    ELSE Respond(r, 202, "fresh", r.job, ManifestKey(r.skey), r.n)

\* broker.rs:102-113 send(envelope).await: completes when the inbox has a free
\* slot, or at once with Err when the receiver is gone; both return Ok(seq)
BrokerSend(p) ==
    /\ proc[p].pc = "send"
    /\ LET r == proc[p]
           w == r.widx
           t == SendTarget(w)
           done == r.idx >= r.n
           h1 == [hist EXCEPT !.returned = @ \cup {r.seq}]
           h2 == IF inbox_open[w] THEN h1
                 ELSE [h1 EXCEPT !.closedSel = @ \cup {EnvelopeFor(r)}]
           h3 == IF t = None THEN h2
                 ELSE [h2 EXCEPT !.sent[t] = Append(@, EnvelopeFor(r))]
       IN /\ t # None => HasCapacity(t)
          /\ inbox' = IF t = None THEN inbox
                      ELSE [inbox EXCEPT ![t] = ChannelPush(@, EnvelopeFor(r))]
          /\ proc' = [proc EXCEPT ![p] = AfterEnqueueOk(r)]
          /\ tasks_published' = task_published(tasks_published)
          /\ jobs_accepted' = AcceptedAfter(jobs_accepted, r)
          /\ hist' = IF done /\ r.key # NoKey
                     THEN [h3 EXCEPT !.lastOk[r.key] =
                              [job |-> r.job, mkey |-> ManifestKey(r.skey),
                               count |-> r.n]]
                     ELSE h3
    /\ UNCHANGED <<qvars, cvars, next_worker, inbox_open, received, lvars, evars>>

\* the client disconnects: the request's future is dropped at an await
\* (read_body or storage.upload, queue.write(), send); nothing is rolled back
Cancel(p) ==
    /\ proc[p].pc \in {"upload", "enqueue", "send"}
    /\ proc' = [proc EXCEPT ![p] = Respond(proc[p], 0, "cancelled", 0, <<>>, 0)]
    /\ hist' = NoteDone(proc[p].key, 0, NoResp)
    /\ UNCHANGED <<qvars, bvars, lvars, mvars, evars>>

(***************************************************************************)
(* Workers: the receiving side of the inboxes                              *)
(***************************************************************************)
\* receivers[w].recv().await
WorkerRecv(w) ==
    /\ inbox_open[w]
    /\ inbox[w] # <<>>
    /\ received' = [received EXCEPT ![w] = Append(@, ChannelHead(inbox[w]))]
    /\ inbox' = [inbox EXCEPT ![w] = ChannelRest(@)]
    /\ UNCHANGED <<qvars, cvars, next_worker, inbox_open, lvars, mvars, proc, evars,
                   hist>>

\* the worker exits: its receiver is dropped, the channel closes and the
\* envelopes still buffered are dropped with it
WorkerExit(w) ==
    /\ inbox_open[w]
    /\ inbox_open' = [inbox_open EXCEPT ![w] = FALSE]
    /\ inbox' = [inbox EXCEPT ![w] = <<>>]
    /\ UNCHANGED <<qvars, cvars, next_worker, received, lvars, mvars, proc, evars,
                   hist>>

(***************************************************************************)
(* Process restart: api/server.rs run() opens the stores again and builds  *)
(* a new broker; the partitions are what the previous run left.            *)
(***************************************************************************)
KeysInFlight == {proc[p].key : p \in {q \in Procs : InFlight(q)}} \ {NoKey}

Restart ==
    /\ restarts < MaxRestarts
    /\ restarts' = restarts + 1
    /\ seq_counter' = OpenCounter(meta_next_seq)
    /\ lock' = Free
    /\ next_worker' = 0
    /\ inbox' = [w \in Workers |-> <<>>]
    /\ inbox_open' = [w \in Workers |-> TRUE]
    /\ received' = [w \in Workers |-> <<>>]
    /\ objstore' = {}
    /\ tasks_published' = 0
    /\ jobs_accepted' = 0
    /\ proc' = [p \in Procs |-> IdleProc]
    /\ hist' = [hist EXCEPT
          !.returned = {}, !.closedSel = {}, !.sent = [w \in Workers |-> <<>>],
          !.ncalls = 0, !.seqOnly = TRUE, !.runFault = FALSE, !.failed = {},
          !.dirty = @ \/ lock # Free,
          !.lastOk = [k \in Keys |->
                         IF k \in KeysInFlight THEN NoResp ELSE hist.lastOk[k]]]
    /\ UNCHANGED <<tasks, meta_next_seq, cvars, jobs, idem, job_clock, tasks_left,
                   faults_left>>

Next ==
    \/ \E p \in Procs : StartRequest(p)
    \/ \E p \in Procs : IdemLookup(p)
    \/ \E p \in Procs : IdemGet(p)
    \/ \E p \in Procs : Upload(p)
    \/ \E p \in Procs : Remember(p)
    \/ \E p \in Procs : Upsert(p)
    \/ \E p \in Procs : QueueInsertTask(p)
    \/ \E p \in Procs : QueueInsertMeta(p)
    \/ \E p \in Procs : BrokerSelect(p)
    \/ \E p \in Procs : BrokerSend(p)
    \/ \E p \in Procs : Cancel(p)
    \/ \E w \in Workers : WorkerRecv(w)
    \/ \E w \in Workers : WorkerExit(w)
    \/ Restart

Spec == Init /\ [][Next]_vars

(***************************************************************************)
(* The resolver on its own.                                                *)
(***************************************************************************)
\* resolve called once on a configuration
ResolveInit ==
    /\ PipelineInit
    /\ num_workers = 1
    /\ \E fb \in FallbackMaps : pools = PoolsOf(fb)
    /\ ResolverIdle
    /\ ValidatorIdle
    /\ NoManifest
    /\ NoRequest
    /\ LedgerIdle
    /\ DlqIdle

ResolveNext ==
    \/ \E ref \in RootRefs : resolve(ref)
    \/ ResolveFallback
    \/ ResolveReturn

\* every call that can take a step does: the resolver runs to its return
ResolveSpec == ResolveInit /\ [][ResolveNext]_vars /\ WF_vars(ResolveNext)

(***************************************************************************)
(* The configuration validation on its own.                                *)
(***************************************************************************)
\* validate_proxy_pools called once on a configuration
ValidateInit ==
    /\ PipelineInit
    /\ num_workers = 1
    /\ \E fb \in FallbackMaps : pools = PoolsOf(fb)
    /\ ResolverIdle
    /\ ValidatorIdle
    /\ NoManifest
    /\ NoRequest
    /\ LedgerIdle
    /\ DlqIdle

ValidateNext ==
    \/ CheckReferences
    \/ DetectFrom
    \/ DetectFallback
    \/ DetectReturn

\* the validation runs to its return
ValidateSpec == ValidateInit /\ [][ValidateNext]_vars /\ WF_vars(ValidateNext)

(***************************************************************************)
(* The configuration validation followed by resolve_all on the same pools. *)
(***************************************************************************)
\* validate_proxy_pools has returned
ValidationReturned ==
    validation.state \in {"Ok", "InvalidFallbackReference", "ProxyFallbackCycle"}

\* resolve_all is called on the configuration once its validation returned
ResolveAllAfterValidation(name) ==
    /\ ValidationReturned
    /\ ResolveAllCall(name)

AgreeNext ==
    \/ CheckReferences
    \/ DetectFrom
    \/ DetectFallback
    \/ DetectReturn
    \/ \E name \in PoolNames : ResolveAllAfterValidation(name)
    \/ ResolveFallback
    \/ ResolveReturn
    \/ ResolveAllInsert

AgreeSpec == ValidateInit /\ [][AgreeNext]_vars

(***************************************************************************)
(* The manifest validation on its own.                                     *)
(***************************************************************************)
\* a request body has been parsed into a manifest
ManifestInit ==
    /\ PipelineInit
    /\ num_workers = 1
    /\ pools = PoolsOf([n \in PoolNames |-> << >>])
    /\ ResolverIdle
    /\ ValidatorIdle
    /\ manifest \in Manifests
    /\ verdict = NotValidated
    /\ storage_key = NoStorageKey
    /\ NoRequest
    /\ LedgerIdle
    /\ DlqIdle

ManifestNext ==
    \/ ValidateManifest
    \/ MakeStorageKey

ManifestSpec == ManifestInit /\ [][ManifestNext]_vars

(***************************************************************************)
(* ingest_job: the checks, one at a time (services.rs:46-108)             *)
(***************************************************************************)
\* the check at hand is evaluated; it fails with err, or passes on to next
Evaluate(check, err, next) ==
    /\ checked' = Append(checked, check)
    /\ IF err # "Ok"
       THEN /\ answer' = into_response(err)
            /\ position' = "answered"
       ELSE /\ position' = next
            /\ UNCHANGED answer
    /\ UNCHANGED <<registry, max_payload_bytes, request, not_uvars>>

\* services.rs:48-56 the Content-Type header
CheckContentType ==
    /\ position = "content_type"
    /\ Evaluate("content_type",
                IF request.content_type.kind = Absent THEN "InvalidPayload"
                ELSE parse_content_type(request.content_type),
                "job_type")

\* services.rs:61-67 job_type = "default"; registry.get(job_type)
CheckJobType ==
    /\ position = "job_type"
    /\ Evaluate("job_type",
                IF "default" \in registry THEN "Ok" ELSE "UnsupportedJobType",
                "tenant")

\* services.rs:70-75 the tenant header
CheckTenant ==
    /\ position = "tenant"
    /\ Evaluate("tenant",
                IF request.tenant = Absent \/ non_empty(request.tenant) = Absent
                THEN "InvalidPayload" ELSE "Ok",
                "idempotency")

\* services.rs:78-97 the idempotency key, if any: a key whose job has a
\* snapshot is answered 202 at once
LookupIdempotency ==
    /\ position = "idempotency"
    /\ LET key == IF request.key = Absent THEN Absent ELSE non_empty(request.key)
       IN IF key # Absent /\ idem[key] # None /\ IdemHit(jobs[idem[key]])
          THEN /\ answer' = Accepted
               /\ position' = "answered"
          ELSE /\ position' = "body_size"
               /\ UNCHANGED answer
    /\ UNCHANGED <<registry, max_payload_bytes, request, checked, not_uvars>>

\* services.rs:101 read_body: services.rs:241 validate_body_size
CheckBodySize ==
    /\ position = "body_size"
    /\ Evaluate("body_size",
                validate_body_size(request.body.size, MAX_PAYLOAD_SIZE), "json")

\* services.rs:104 serde_json::from_slice
CheckJson ==
    /\ position = "json"
    /\ Evaluate("json", IF request.body.json THEN "Ok" ELSE "InvalidPayload",
                "manifest")

\* services.rs:105 validate_manifest(&manifest).map_err(map_manifest_error)
CheckManifest ==
    /\ position = "manifest"
    /\ Evaluate("manifest",
                IF validate_manifest(request.body.manifest) = ValidOk THEN "Ok"
                ELSE "InvalidPayload",
                "upload")

(***************************************************************************)
(* The checks of one request on their own.                                 *)
(***************************************************************************)
\* the request whose job the ledger may already hold
StoredRequest ==
    [IdleProc EXCEPT !.job = 1, !.n = 1, !.skey = "p/m.json", !.tenant = "acme",
                     !.key = "k1"]

\* a request arrives at a server that is new, or that has accepted
\* StoredRequest under the key k1 before
RequestInit ==
    /\ \/ PipelineInit
       \/ ServerUp([s \in SeqIds |-> IF s = 0 THEN Task(StoredRequest, 1) ELSE NoTask],
                   NextSeqFor(0),
                   [j \in JobIds |-> IF j = 1 THEN Snapshot(StoredRequest, 1)
                                     ELSE NoSnapshot],
                   [k \in Keys |-> IF k = "k1" THEN 1 ELSE None], 1)
    /\ num_workers = 1
    /\ pools = PoolsOf([n \in PoolNames |-> << >>])
    /\ ResolverIdle
    /\ ValidatorIdle
    /\ NoManifest
    /\ LedgerIdle
    /\ DlqIdle
    /\ registry \in Registries
    /\ max_payload_bytes \in PayloadLimits
    /\ request \in Requests
    /\ position = "content_type"
    /\ checked = << >>
    /\ answer = NoAnswer

RequestNext ==
    \/ CheckContentType
    \/ CheckJobType
    \/ CheckTenant
    \/ LookupIdempotency
    \/ CheckBodySize
    \/ CheckJson
    \/ CheckManifest

RequestSpec == RequestInit /\ [][RequestNext]_vars

(***************************************************************************)
(* The ledger store on its own: a caller upserts, reads, remembers keys    *)
(* and prunes, and time passes.                                            *)
(***************************************************************************)
LedgerInit ==
    /\ ServerUp([s \in SeqIds |-> NoTask], None, [j \in JobIds |-> NoSnapshot],
                [k \in LedgerKeys |-> None], 0)
    /\ num_workers = 1
    /\ pools = PoolsOf([n \in PoolNames |-> << >>])
    /\ ResolverIdle
    /\ ValidatorIdle
    /\ NoManifest
    /\ NoRequest
    /\ wall_clock \in {DateTime(StartSecs, 0), DateTime(StartSecs, HalfSecond)}
    /\ ledger_meta = NoLedgerMeta
    /\ written = NothingWritten
    /\ ledger_call = NoLedgerCall
    /\ DlqIdle

\* a call is made while calls are left
CallLeft == ledger_call.n < MaxCalls

\* the run lasts MaxDays at most
TimeLeft(secs) == wall_clock.secs + secs <= StartSecs + MaxDays * SecondsPerDay

LedgerNext ==
    \/ CallLeft /\ \E snapshot \in SnapshotsNow : LedgerUpsert(snapshot)
    \/ CallLeft /\ \E job_id \in JobIds : LedgerGet(job_id)
    \/ CallLeft /\ \E key \in LedgerKeys, job_id \in JobIds : RememberIdempotency(key, job_id)
    \/ CallLeft /\ \E key \in LedgerKeys : GetIdempotent(key)
    \/ CallLeft /\ PruneExpired
    \/ \E secs \in Daytimes, nanos \in {0, HalfSecond} : TimeLeft(secs) /\ Tick(secs, nanos)

LedgerSpec == LedgerInit /\ [][LedgerNext]_vars

(***************************************************************************)
(* The dead letter queue on its own: tasks are moved to it and read back   *)
(* on a queue that accepted jobs have filled.                              *)
(***************************************************************************)
\* the request that enqueued the task with sequence number s: two tasks a job
QueuedRequest(s) ==
    [IdleProc EXCEPT !.job = (s \div 2) + 1, !.n = 2, !.skey = "p/m.json",
                     !.tenant = "acme"]

QueuedTask(s) == Task(QueuedRequest(s), (s % 2) + 1)

\* the server after k tasks were accepted and enqueued
DlqInit ==
    /\ \E k \in 0..MaxTasks :
          ServerUp([s \in SeqIds |-> IF s < k THEN QueuedTask(s) ELSE NoTask],
                   IF k = 0 THEN None ELSE NextSeqFor(k - 1),
                   [j \in JobIds |-> IF 2 * (j - 1) < k
                                     THEN Snapshot(QueuedRequest(2 * (j - 1)), j)
                                     ELSE NoSnapshot],
                   [key \in Keys |-> None], (k + 1) \div 2)
    /\ num_workers = 1
    /\ pools = PoolsOf([n \in PoolNames |-> << >>])
    /\ ResolverIdle
    /\ ValidatorIdle
    /\ NoManifest
    /\ NoRequest
    /\ LedgerIdle
    /\ DlqIdle

\* a call is made while calls are left
DlqCallLeft == queue_call.n < MaxCalls

DlqNext ==
    \/ DlqCallLeft /\ \E seq \in SeqIds \cup {MaxTasks}, failure_code \in FailureCodes,
                         failure_message \in FailureMessages, attempts \in Attempts :
                         MoveToDlq(seq, failure_code, failure_message, attempts)
    \/ DlqCallLeft /\ \E seq \in SeqIds \cup {MaxTasks} : GetDlqTask(seq)

DlqSpec == DlqInit /\ [][DlqNext]_vars

(***************************************************************************)
(* The pipeline with its health endpoint.                                  *)
(***************************************************************************)
HealthNext ==
    \/ Next
    \/ GetHealth

HealthSpec == Init /\ [][HealthNext]_vars

(***************************************************************************)
(* The pipeline while the server stays up, every client waits for its      *)
(* answer and every worker keeps receiving.                                *)
(***************************************************************************)
\* the steps of the Broker.enqueue call of request p
EnqueueStep(p) ==
    \/ QueueInsertTask(p)
    \/ QueueInsertMeta(p)
    \/ BrokerSelect(p)
    \/ BrokerSend(p)

DispatchNext ==
    \/ \E p \in Procs : StartRequest(p)
    \/ \E p \in Procs : IdemLookup(p)
    \/ \E p \in Procs : IdemGet(p)
    \/ \E p \in Procs : Upload(p)
    \/ \E p \in Procs : Remember(p)
    \/ \E p \in Procs : Upsert(p)
    \/ \E p \in Procs : EnqueueStep(p)
    \/ \E w \in Workers : WorkerRecv(w)

\* the worker indices of the largest pool configured
WorkerSlots == UNION {0..(c.num_workers - 1) : c \in BrokerConfigs}

\* the runtime polls every future that can make progress (a call that can
\* take the lock, write, select or send does), and every worker task loops on
\* recv
DispatchSpec ==
    /\ Init
    /\ [][DispatchNext]_vars
    /\ \A p \in Procs : WF_vars(EnqueueStep(p))
    /\ \A w \in WorkerSlots : WF_vars(w \in Workers /\ WorkerRecv(w))

(***************************************************************************)
(* The queue store of a serving, restarting server with its dead letter    *)
(* queue.                                                                  *)
(***************************************************************************)
\* store.rs:112 move_to_dlq is called once, for a task that failed on a
\* connection timeout after three attempts, on the queue behind the broker's
\* RwLock, so not while an enqueue holds the write guard
MoveToDlqCall(seq) ==
    /\ queue_call = NoQueueCall
    /\ WriteLockAcquired(lock)
    /\ MoveToDlq(seq, "NETWORK_ERROR", "Connection timeout", 3)

DlqRunNext ==
    \/ \E p \in Procs : StartRequest(p)
    \/ \E p \in Procs : IdemLookup(p)
    \/ \E p \in Procs : IdemGet(p)
    \/ \E p \in Procs : Upload(p)
    \/ \E p \in Procs : Remember(p)
    \/ \E p \in Procs : Upsert(p)
    \/ \E p \in Procs : EnqueueStep(p)
    \/ \E w \in Workers : WorkerRecv(w)
    \/ Restart
    \/ \E seq \in SeqIds \cup {MaxTasks} : MoveToDlqCall(seq)

DlqRunSpec == Init /\ [][DlqRunNext]_vars

(***************************************************************************)
(* Properties                                                              *)
(***************************************************************************)
Seqs(q) == {q[i].seq : i \in DOMAIN q}

StrictlyIncreasing(q) == \A i, j \in DOMAIN q : i < j => q[i] < q[j]

SeqsIncreasing(q) == \A i, j \in DOMAIN q : i < j => q[i].seq < q[j].seq

\* the envelopes worker w has been handed or still has buffered, oldest first
Delivered(w) == received[w] \o inbox[w]

\* C1: within one open queue instance every enqueue call holds a sequence
\* number that no call has returned before and no concurrent call holds, and
\* that is greater than every sequence number returned before the call
\* started, whichever inbox is selected.
C1_DistinctMonotoneSeq ==
    \A p \in Procs : InCall(p) =>
        /\ proc[p].seq \notin hist.returned
        /\ proc[p].floor # None => proc[p].seq > proc[p].floor
        /\ \A q \in Procs \ {p} : InCall(q) => proc[q].seq # proc[p].seq

\* two calls in progress at once, one of them started after a call returned
C1_Witness ==
    \E p, q \in Procs :
        /\ p # q /\ InCall(p) /\ InCall(q)
        /\ proc[p].floor # None
        /\ proc[p].pc = "send" /\ proc[q].pc = "send"
        /\ proc[p].widx # proc[q].widx

\* the counter the specification requires after open
ReconciledCounter ==
    Max(OpenCounter(meta_next_seq),
        IF TaskKeys = {} THEN 0 ELSE 1 + SetMax(TaskKeys))

\* C2: on open the counter is max(persisted next_seq, 1 + largest key in
\* tasks and dlq), so that no enqueue after a crash and reopen is given a
\* sequence number whose key already holds a persisted task. (Every dlq key
\* is a tasks key: move_to_dlq copies an existing task and removes nothing.)
C2_NoPersistedKeyReuse ==
    /\ hist.ncalls = 0 /\ lock = Free => seq_counter = ReconciledCounter
    /\ ~hist.reused

\* C3: after n successful enqueues on a fresh queue (no failed or interrupted
\* enqueue) and a reopen, current_seq() is n, the enqueues have returned
\* 0, 1, ..., n-1 in turn, also across the reopen, and get_task returns every
\* task under the sequence number its enqueue returned.
C3_ReopenContinues ==
    (restarts > 0 /\ ~hist.dirty /\ lock = Free) =>
        /\ current_seq = hist.nOk
        /\ \A s \in SeqIds :
              /\ s < hist.nOk => hist.enqLog[s] # NoTask /\ get_task(s) = hist.enqLog[s]
              /\ s >= hist.nOk => hist.enqLog[s] = NoTask

\* a reopened queue that held two tasks and has taken one more since
C3_Witness ==
    /\ restarts > 0 /\ ~hist.dirty /\ lock = Free
    /\ hist.ncalls >= 1
    /\ hist.nOk > hist.ncalls + 1

\* C4: every envelope in a worker inbox, or received by a worker, has its
\* task in the queue store under tasks/seq.
C4_PersistBeforeDispatch ==
    \A w \in Workers : \A i \in DOMAIN Delivered(w) :
        get_task(Delivered(w)[i].seq) = Delivered(w)[i].task

\* one envelope buffered and one already received
C4_Witness ==
    \E w, v \in Workers : inbox[w] # <<>> /\ received[v] # <<>>

EndsWaitedSend(p) ==
    /\ proc[p].pc = "send"
    /\ proc[p].waited
    /\ proc'[p].pc # "send"
    /\ restarts' = restarts

\* the envelope of p joins its inbox in this step
Delivers(p) ==
    inbox'[proc[p].widx] = Append(inbox[proc[p].widx], EnvelopeFor(proc[p]))

\* no inbox holds more than channel_size envelopes
WithinCapacity == \A w \in Workers : Len(inbox[w]) <= channel_size

\* a call that has reached the send has its task in the queue store
PersistedWhileSending ==
    \A p \in Procs : proc[p].pc = "send" =>
        get_task(proc[p].seq) = Task(proc[p], proc[p].idx)

\* C6 as stated: an inbox never holds more than inbox_capacity envelopes; a
\* call that found its inbox full neither returns nor drops the envelope
\* until the worker frees a slot (it ends only by delivering the envelope);
\* its task is persisted while it is suspended.
C6_BlocksUntilSlotFreed ==
    /\ []WithinCapacity
    /\ []PersistedWhileSending
    /\ [][\A p \in Procs : EndsWaitedSend(p) => Delivers(p)]_vars

\* C6 amended: ... until the worker frees a slot, unless the inbox is closed
\* meanwhile (the call then returns Ok(seq) and nothing is delivered) or the
\* request is cancelled (the envelope is dropped with the request).
C6_Backpressure ==
    /\ []WithinCapacity
    /\ []PersistedWhileSending
    /\ [][\A p \in Procs : EndsWaitedSend(p) =>
            \/ /\ inbox_open[proc[p].widx]
               /\ HasCapacity(proc[p].widx)
               /\ Delivers(p)
            \/ /\ ~inbox_open[proc[p].widx]
               /\ inbox' = inbox
               /\ proc'[p].kind # "cancelled"
            \/ /\ proc'[p].kind = "cancelled"
               /\ inbox' = inbox]_vars

\* a call suspended on a full, open inbox
C6_Witness ==
    \E p \in Procs :
        /\ proc[p].pc = "send" /\ proc[p].waited
        /\ inbox_open[proc[p].widx]
        /\ Len(inbox[proc[p].widx]) = channel_size
        /\ get_task(proc[p].seq) = Task(proc[p], proc[p].idx)

\* C7: a call whose selected inbox is closed returns Ok(seq), its task stays
\* under tasks/seq, and no inbox holds or has handed over an envelope for it.
C7_ClosedInboxStillOk ==
    \A e \in hist.closedSel :
        /\ e.seq \in hist.returned
        /\ get_task(e.seq) = e.task
        /\ \A w \in Workers : e.seq \notin Seqs(Delivered(w))
        /\ \A w \in Workers : e.seq \notin Seqs(hist.sent[w])

\* a call met a closed inbox while another inbox was open
C7_Witness ==
    /\ hist.closedSel # {}
    /\ \E w \in Workers : inbox_open[w]

\* C8: a worker receives the envelopes of its inbox in the order in which the
\* sends into it completed; while the inbox is open none is lost or duplicated.
C8_InboxFifo ==
    \A w \in Workers :
        /\ IsPrefix(received[w], hist.sent[w])
        /\ inbox_open[w] => hist.sent[w] = Delivered(w)
        /\ \A i, j \in DOMAIN hist.sent[w] :
              i # j => hist.sent[w][i].seq # hist.sent[w][j].seq

\* an inbox that buffered two envelopes behind one already received
C8_Witness ==
    \E w \in Workers : Len(received[w]) >= 1 /\ Len(inbox[w]) >= 2

\* C9: a request with key k issued after a request with key k that ran alone
\* was answered 202 is answered 202 with the same job_id, manifest_key and
\* resource_count (the stored resource_total), and it uploads nothing, writes
\* nothing to the ledger and enqueues nothing.
C9_IdempotentReplay ==
    \A p \in Procs : proc[p].expect # NoResp =>
        /\ proc[p].pc \in {"idem", "idem_get", "done"}
        /\ proc[p].wlog = <<>>
        /\ proc[p].uploads = 0
        /\ proc[p].pc = "done" =>
              /\ proc[p].status = 202
              /\ proc[p].kind = "replay"
              /\ [job |-> proc[p].rjob, mkey |-> proc[p].rkey,
                  count |-> proc[p].rcount] = proc[p].expect
              /\ proc[p].rcount = jobs[proc[p].rjob].resource_total

\* the second request has been answered
C9_Witness ==
    \E p \in Procs : proc[p].expect # NoResp /\ proc[p].pc = "done"

\* the ledger and queue writes of a request with key k and n resources
ExpectedWrites(k, n) ==
    (IF k # NoKey THEN << <<"idem", 0>> >> ELSE << >>)
        \o << <<"snap", 0>> >> \o [i \in 1..n |-> <<"task", i>>]

\* C10: at every moment the writes a request has committed are a prefix of
\* idempotency record (if a key was given), snapshot, task 1, ..., task n; a
\* task found in the queue has its job's snapshot in the ledger; the tasks of
\* a request were given strictly increasing sequence numbers in resource order.
C10_WriteOrder ==
    /\ \A p \in Procs :
          /\ InFlight(p) =>
                /\ IsPrefix(proc[p].wlog, ExpectedWrites(proc[p].key, proc[p].n))
                /\ StrictlyIncreasing(proc[p].seqs)
                /\ \A i \in DOMAIN proc[p].seqs :
                      get_task(proc[p].seqs[i]) = Task(proc[p], i)
          /\ proc[p].pc = "done" =>
                IsPrefix(proc[p].wlog, ExpectedWrites(proc[p].key, MaxRes))
    /\ \A s \in TaskKeys : jobs[tasks[s].job_id] # NoSnapshot

\* a request with a key that has committed all its writes, two tasks among them
C10_Witness ==
    \E p \in Procs :
        /\ InFlight(p) /\ proc[p].key # NoKey /\ proc[p].n = 2
        /\ proc[p].wlog = ExpectedWrites(proc[p].key, proc[p].n)
        /\ Len(proc[p].seqs) = 2

\* request p is answered in this step by ingest_job itself
Answered(p) ==
    /\ proc'[p].pc = "done"
    /\ proc'[p].kind # "cancelled"
    /\ InFlight(p) \/ job_clock' # job_clock

\* request p is answered 202 for a job of its own in this step
FreshAccepted(p) ==
    /\ InFlight(p)
    /\ proc'[p].pc = "done"
    /\ proc'[p].status = 202
    /\ proc'[p].kind = "fresh"

\* the keys under which the tasks partition holds a task of job j
TaskKeysOf(t, j) == {s \in SeqIds : t[s].job_id = j}

\* C11: a request whose body is oversized, not JSON or fails manifest
\* validation is answered 413/400, whether or not its idempotency key matches a
\* stored job (the lookup comes after the body checks).
C11_ValidationBeforeIdempotency ==
    [][\A p \in Procs :
          (InFlight(p) /\ proc[p].body # "ok" /\ Answered(p)) =>
              proc'[p].status = BodyStatus(proc[p].body)]_vars

\* C12: right after the 202 of a fresh job the ledger holds its snapshot with
\* status Queued, resource_total = number of resources, resource_completed =
\* resource_failed = 0, created_at = updated_at, no errors, and the tenant and
\* manifest_key of the request.
C12_AcceptedSnapshot ==
    [][\A p \in Procs : FreshAccepted(p) =>
          LET snap == jobs'[proc'[p].rjob]
          IN /\ proc'[p].rjob = proc[p].job
             /\ snap.job_id = proc[p].job
             /\ snap.status = "Queued"
             /\ snap.resource_total = proc[p].n
             /\ snap.resource_completed = 0
             /\ snap.resource_failed = 0
             /\ snap.created_at = snap.updated_at
             /\ snap.errors = << >>
             /\ snap.tenant = proc[p].tenant
             /\ snap.manifest_key = <<"s3", "bucket", proc[p].skey>>
             /\ snap.manifest_key = proc'[p].rkey]_vars

\* a fresh job of two resources has been accepted and its snapshot is stored
C12_Witness ==
    \E p \in Procs :
        /\ proc[p].pc = "done" /\ proc[p].status = 202 /\ proc[p].kind = "fresh"
        /\ proc[p].rcount = 2
        /\ jobs[proc[p].rjob].status = "Queued"
        /\ jobs[proc[p].rjob].tenant \in Tenants

C14_FailedWriteLeavesNothing ==
    [][\A p \in Procs :
          (proc[p].pc \in {"upload", "upsert"} /\ Answered(p)) =>
              /\ proc'[p].status = 500
              /\ jobs'[proc[p].job] = NoSnapshot
              /\ TaskKeysOf(tasks', proc[p].job) = {}
              /\ proc[p].key # NoKey => idem'[proc[p].key] # proc[p].job]_vars

\* C15: when the enqueue of the i-th task fails the request is answered 500,
\* the snapshot stays Queued with resource_total = n, and exactly the first
\* i-1 tasks of the job are in the queue.
C15_MidEnqueueFailure ==
    [][\A p \in Procs :
          (proc[p].pc \in {"enqueue", "qmeta"} /\ Answered(p)) =>
              /\ proc'[p].status = 500
              /\ jobs'[proc[p].job].status = "Queued"
              /\ jobs'[proc[p].job].resource_total = proc[p].n
              /\ \A i \in 1..(proc[p].idx - 1) :
                    /\ i \in DOMAIN proc[p].seqs
                    /\ tasks'[proc[p].seqs[i]] = Task(proc[p], i)
              /\ TaskKeysOf(tasks', proc[p].job) =
                    {proc[p].seqs[i] : i \in 1..(proc[p].idx - 1)}]_vars

\* C16: tasks_published counts the Broker.enqueue calls of the ingest path
\* that returned Ok, jobs_accepted counts the fresh 202 responses; a replay, a
\* 4xx/5xx or a mid-enqueue failure adds nothing to jobs_accepted.
C16_Counters ==
    /\ tasks_published = 0 /\ jobs_accepted = 0
    /\ [](tasks_published = Cardinality(hist.returned))
    /\ [][IF restarts' # restarts
          THEN tasks_published' = 0 /\ jobs_accepted' = 0
          ELSE /\ tasks_published' - tasks_published =
                     Cardinality(hist'.returned \ hist.returned)
               /\ jobs_accepted' - jobs_accepted =
                     Cardinality({p \in Procs : FreshAccepted(p)})]_vars

\* one job accepted and its two tasks published; a replay was answered and
\* counted nothing
C16_Witness ==
    /\ jobs_accepted = 1
    /\ tasks_published = 2
    /\ \E p \in Procs : proc[p].pc = "done" /\ proc[p].kind = "replay"

\* C17: a fresh accepted request with n resources took n sequence numbers, in
\* manifest order, and the queue holds under them exactly one task per
\* resource: the i-th with the i-th resource's name and url, attempt 1 and the
\* job_id, tenant and manifest_key of the job; current_seq grew by n (exactly
\* n when no other enqueue ran meanwhile).
C17_TasksOfAcceptedJob ==
    [][\A p \in Procs : FreshAccepted(p) =>
          LET r == proc[p]
          IN /\ Len(r.seqs) = r.n
             /\ \A i \in 1..r.n :
                   tasks'[r.seqs[i]] =
                      [job_id |-> r.job, tenant |-> r.tenant,
                       manifest_key |-> <<"s3", "bucket", r.skey>>,
                       resource_id |-> Manifest(r.n)[i].name,
                       url |-> Manifest(r.n)[i].url, attempt |-> 1]
             /\ \A i, j \in 1..r.n : i < j => r.seqs[i] < r.seqs[j]
             /\ TaskKeysOf(tasks', r.job) = {r.seqs[i] : i \in 1..r.n}
             /\ current_seq' >= r.seqs[1] + r.n
             /\ hist.ncalls = r.n => current_seq' = r.seqs[1] + r.n]_vars

\* a job of two resources accepted: both tasks are in the queue
C17_Witness ==
    \E p \in Procs :
        /\ proc[p].pc = "done" /\ proc[p].status = 202 /\ proc[p].kind = "fresh"
        /\ proc[p].rcount = 2
        /\ Cardinality(TaskKeysOf(tasks, proc[p].rjob)) = 2

(***************************************************************************)
(* Properties of the resolver (under ResolveSpec)                          *)
(***************************************************************************)
\* the pool resolve was called for
RootName == strip_prefix(root)

\* the pools the fallback list of n names
FallbackNames(n) ==
    IF n \in DOMAIN pools
    THEN {strip_prefix(pools[n].fallbacks[i]) : i \in DOMAIN pools[n].fallbacks}
    ELSE {}

RECURSIVE Closure(_, _)
\* S and what is reachable from it in at most k fallback steps
Closure(S, k) ==
    IF k = 0 THEN S
    ELSE Closure(S \cup UNION {FallbackNames(n) : n \in S}, k - 1)

\* the names reachable from n in one or more fallback steps
ReachPlus(n) == Closure(FallbackNames(n), MaxPools + 1)

Reach(n) == {n} \cup ReachPlus(n)

\* n lies on a fallback cycle n -> ... -> n
OnCycle(n) == n \in ReachPlus(n)

\* no pool reachable from n lies on a cycle
Acyclic(n) == \A m \in Reach(n) : ~OnCycle(m)

\* every reference reachable from n names a configured pool
NoDangling(n) == Reach(n) \subseteq DOMAIN pools

RECURSIVE PreOrder(_)
RECURSIVE PreOrderFrom(_, _)
\* the primary lists in DFS pre-order from n, fallbacks in declared order
PreOrder(n) == <<Endpoints(pools[n])>> \o PreOrderFrom(pools[n].fallbacks, 1)

PreOrderFrom(fbs, i) ==
    IF i > Len(fbs) THEN << >>
    ELSE PreOrder(strip_prefix(fbs[i])) \o PreOrderFrom(fbs, i + 1)

Returned == result.state \in {"Ok", "CycleDetected", "PoolNotFound"}

\* C18: for a pool whose fallback graph is acyclic and has no dangling
\* reference, resolve succeeds and its tiers are the primary lists of the
\* pools in DFS pre-order, fallbacks in declared order, each tier in declared
\* endpoint order, a leading "pools/" ignored.
C18_DfsPreOrderTiers ==
    (Returned /\ Acyclic(RootName) /\ NoDangling(RootName)) =>
        /\ result.state = "Ok"
        /\ tiers = PreOrder(RootName)

\* C19: resolve reports CycleDetected only for a pool that is on the current
\* DFS path; a pool reached along two acyclic paths does not make it fail.
C19_CycleOnlyOnPath ==
    result.state = "CycleDetected" =>
        \E i \in DOMAIN result.path : result.path[i] = result.err

\* C20 as stated: resolve of a pool on a fallback cycle terminates and returns
\* CycleDetected.
C20_CycleAlwaysDetected ==
    (result.state = "running" /\ OnCycle(RootName)) ~>
        (result.state = "CycleDetected")

\* C20 amended: resolve of a pool on a fallback cycle terminates with an
\* error: CycleDetected, or PoolNotFound for a dangling reference that the DFS
\* meets before a pool repeats.
C20_CycleTerminates ==
    (result.state = "running" /\ OnCycle(RootName)) ~>
        /\ result.state \in {"CycleDetected", "PoolNotFound"}
        /\ result.state = "PoolNotFound" => result.err \notin DOMAIN pools
        /\ NoDangling(RootName) => result.state = "CycleDetected"

\* a cycle through the root and another pool was detected when the root came back
C20_Witness ==
    /\ result.state = "CycleDetected"
    /\ OnCycle(RootName)
    /\ result.err = RootName
    /\ Len(tiers) >= 2

(***************************************************************************)
(* Properties of the configuration validation (under ValidateSpec)         *)
(***************************************************************************)
Validated == validation.state \in {"Ok", "InvalidFallbackReference", "ProxyFallbackCycle"}

\* some configured pool lies on a fallback cycle
HasCycle == \E n \in DOMAIN pools : OnCycle(n)

\* some fallback names a pool that is not configured
HasDangling == \E n \in DOMAIN pools : Dangling(n) # {}

\* the path runs along fallback references and ends in a pool it already
\* holds: from that pool on it names every pool of a cycle
ClosesCycle(path) ==
    /\ \E i \in 1..(Len(path) - 1) : path[i] = path[Len(path)]
    /\ \A j \in 1..(Len(path) - 1) : path[j + 1] \in FallbackNames(path[j])

\* C21 as stated: validation terminates on every pool map, and every map that
\* contains a fallback cycle is rejected with ProxyFallbackCycle whose path
\* names every pool on the cycle, whichever pool the traversal starts from.
C21_CycleAlwaysReported ==
    /\ <>Validated
    /\ [](Validated /\ HasCycle =>
            /\ validation.state = "ProxyFallbackCycle"
            /\ ClosesCycle(validation.path))

\* C21 amended: validation terminates on every pool map; a map with a fallback
\* cycle is rejected: with ProxyFallbackCycle whose path names every pool on
\* the cycle when every fallback names a configured pool, and with
\* InvalidFallbackReference otherwise (the reference check comes first). A
\* map without cycle and dangling fallback passes.
C21_CycleRejected ==
    /\ <>Validated
    /\ [](Validated =>
            /\ HasDangling =>
                  /\ validation.state = "InvalidFallbackReference"
                  /\ strip_prefix(validation.fallback) \notin DOMAIN pools
                  /\ validation.fallback \in Range(pools[validation.pool].fallbacks)
            /\ (HasCycle /\ ~HasDangling) =>
                  /\ validation.state = "ProxyFallbackCycle"
                  /\ ClosesCycle(validation.path)
            /\ (~HasCycle /\ ~HasDangling) => validation.state = "Ok")

\* the cycle a -> b -> a was reported from a traversal that started at c
C21_Witness ==
    /\ validation.state = "ProxyFallbackCycle"
    /\ validation.path = << <<"c">>, <<"a">>, <<"b">>, <<"a">> >>

(***************************************************************************)
(* Properties of the manifest validation (under ManifestSpec)              *)
(***************************************************************************)
HasScheme(url) ==
    \/ Len(url) >= 7 /\ SubSeq(url, 1, 7) = <<"h", "t", "t", "p", ":", "/", "/">>
    \/ Len(url) >= 8 /\ SubSeq(url, 1, 8) = <<"h", "t", "t", "p", "s", ":", "/", "/">>

\* the checks of one resource, in the order of the specification; uniqueness
\* is failed by the later of two resources with one name
ResourceFails(m, i, c) ==
    LET res == m.resources[i]
    IN CASE c = 1 -> res.name.len > 128
         [] c = 2 -> \E j \in 1..(i - 1) : m.resources[j].name = res.name
         [] c = 3 -> ~HasScheme(res.url)
         [] c = 4 -> \/ Len(res.headers) > 10
                     \/ \E k \in DOMAIN res.headers :
                           res.headers[k].len > 1024 \/ res.headers[k].nul
         [] c = 5 -> \/ Len(res.tags) > 10
                     \/ \E k \in DOMAIN res.tags : res.tags[k].len > 1024

\* what the specification accepts
ManifestOk(m) ==
    /\ m.manifest_version = "v1"
    /\ m.metadata = "object"
    /\ 1 <= Len(m.resources) /\ Len(m.resources) <= 1000
    /\ m.attributes \in {"absent", "object"}
    /\ \A i \in DOMAIN m.resources :
          /\ \A c \in {1, 3, 4, 5} : ~ResourceFails(m, i, c)
          /\ \A j \in DOMAIN m.resources \ {i} :
                m.resources[j].name # m.resources[i].name

ResourceChecks == <<"name", "unique", "url", "headers", "tags">>

\* the first check that fails, in the order version, metadata, resource
\* count, attributes, then resource by resource, and the resource it fails on
FirstFailure(m) ==
    IF m.manifest_version # "v1" THEN <<"version", 0>>
    ELSE IF m.metadata # "object" THEN <<"metadata", 0>>
    ELSE IF Len(m.resources) < 1 \/ Len(m.resources) > 1000 THEN <<"count", 0>>
    ELSE IF m.attributes \notin {"absent", "object"} THEN <<"attributes", 0>>
    ELSE LET bad == {ic \in (DOMAIN m.resources) \X (1..5) :
                        ResourceFails(m, ic[1], ic[2])}
         IN IF bad = {} THEN <<"ok", 0>>
            ELSE LET first == CHOOSE ic \in bad : \A jd \in bad :
                                 \/ ic[1] < jd[1]
                                 \/ ic[1] = jd[1] /\ ic[2] <= jd[2]
                 IN <<ResourceChecks[first[2]], first[1]>>

\* the check an error reports
CheckOf(err) ==
    CASE err = "Ok" -> "ok"
      [] err = "UnsupportedVersion" -> "version"
      [] err = "InvalidMetadata" -> "metadata"
      [] err = "InvalidResourceCount" -> "count"
      [] err = "InvalidAttributes" -> "attributes"
      [] err = "ResourceNameTooLong" -> "name"
      [] err = "DuplicateResourceNames" -> "unique"
      [] err = "InvalidResourceUrl" -> "url"
      [] err \in {"HeaderLimitExceeded", "HeaderValueTooLarge"} -> "headers"
      [] err \in {"TagLimitExceeded", "TagValueTooLarge"} -> "tags"

\* C22: validate_manifest returns Ok exactly for the manifests with version
\* v1, object metadata, 1..1000 resources, attributes absent or an object, and
\* resources with a name of at most 128 bytes used by no other resource, an
\* http:// or https:// url, at most 10 headers of at most 1024 bytes without
\* NUL and at most 10 tags of at most 1024 bytes (all limits inclusive);
\* otherwise the error is that of the first failing check in the order
\* version, metadata, resource count, attributes, then per resource.
C22_ValidateManifest ==
    verdict # NotValidated =>
        LET first == FirstFailure(manifest)
        IN /\ verdict.err = "Ok" <=> ManifestOk(manifest)
           /\ CheckOf(verdict.err) = first[1]
           /\ verdict.name # NoName =>
                 verdict.name = manifest.resources[first[2]].name

\* a first resource at every inclusive limit passed and the second one was
\* rejected by the last check, its tags
C22_Witness ==
    /\ verdict.err = "TagValueTooLarge"
    /\ Len(manifest.resources) = 2
    /\ manifest.resources[1].name.len = 128
    /\ Len(manifest.resources[1].headers) = 10
    /\ manifest.resources[1].headers[10].len = 1024
    /\ verdict.name = manifest.resources[2].name

\* C23: a manifest that passed validation and reached the upload has a
\* non-empty storage.manifest_file and a non-empty
\* storage.resource_key_prefix, and the object key built from them is not empty.
C23_StorageFieldsNonEmpty ==
    storage_key # NoStorageKey =>
        /\ manifest.storage.manifest_file # << >>
        /\ manifest.storage.resource_key_prefix # << >>
        /\ storage_key # << >>

(***************************************************************************)
(* Properties of the request checks (under RequestSpec)                    *)
(***************************************************************************)
\* the body size check was evaluated and rejected the request
SizeRejected ==
    /\ position = "answered"
    /\ checked # << >>
    /\ checked[Len(checked)] = "body_size"

\* C24: the body limit is the configured api.max_payload_bytes, inclusive: a
\* body of max_payload_bytes bytes passes the size check, one of
\* max_payload_bytes + 1 bytes is answered 413 PAYLOAD_TOO_LARGE.
C24_ConfiguredBodyLimit ==
    (\E i \in DOMAIN checked : checked[i] = "body_size") =>
        /\ SizeRejected <=> request.body.size > max_payload_bytes
        /\ SizeRejected => answer = [status |-> 413, code |-> "PAYLOAD_TOO_LARGE"]

\* the checks of POST /jobs in the order of the specification, and the
\* response each gives when it fails
CheckOrder == <<"content_type", "job_type", "tenant", "body_size", "json", "manifest">>

CheckAnswer ==
    << [status |-> 400, code |-> "INVALID_PAYLOAD"],
       [status |-> 403, code |-> "UNSUPPORTED_JOB_TYPE"],
       [status |-> 400, code |-> "INVALID_PAYLOAD"],
       [status |-> 413, code |-> "PAYLOAD_TOO_LARGE"],
       [status |-> 400, code |-> "INVALID_PAYLOAD"],
       [status |-> 400, code |-> "INVALID_PAYLOAD"] >>

\* whether the request fails the i-th check of the specification
FailsCheck(i) ==
    CASE i = 1 -> request.content_type # Media("application", "json")
      [] i = 2 -> "default" \notin registry
      [] i = 3 -> request.tenant \in {Absent, ""}
      [] i = 4 -> request.body.size > max_payload_bytes
      [] i = 5 -> ~request.body.json
      [] i = 6 -> ~request.body.json \/ ~ManifestOk(request.body.manifest)

\* C25: the checks run in the order Content-Type, job type, tenant, body
\* size, JSON parse, manifest validation; the first failing one alone gives
\* the response (400, 403, 400, 413, 400, 400) and no later check is
\* evaluated; a request that fails none goes on to the upload.
C25_FirstFailingCheck ==
    /\ IsPrefix(checked, CheckOrder)
    /\ position \in {"answered", "upload"} =>
          LET failing == {i \in 1..6 : FailsCheck(i)}
          IN IF failing = {}
             THEN position = "upload" /\ checked = CheckOrder
             ELSE LET first == CHOOSE i \in failing : \A j \in failing : i <= j
                  IN /\ position = "answered"
                     /\ answer = CheckAnswer[first]
                     /\ checked = SubSeq(CheckOrder, 1, first)

(***************************************************************************)
(* Properties of the ledger store (under LedgerSpec)                       *)
(***************************************************************************)
\* the last get returned what it should: expected(j) for the job id j asked
GetReturned(expected(_)) ==
    ledger_call.op = "get" => ledger_call.snap = expected(ledger_call.job)

\* get_idempotent returns the job id last remembered under the key, None
\* when there is none, now and when it was last called
IdempotencyLastWriteWins ==
    /\ \A k \in LedgerKeys : get_idempotent(k) = written.id[k]
    /\ ledger_call.op = "get_idempotent" => ledger_call.id = written.id[ledger_call.key]

\* C26 as stated: get(id) returns the very snapshot last given to upsert for
\* id, None when there is none; get_idempotent(k) the job id last remembered
\* for k, None when there is none; neither map is changed by a write of the
\* other.
C26_LastWriteWinsExact ==
    /\ \A j \in JobIds : get(j) = written.snap[j]
    /\ GetReturned(LAMBDA j : written.snap[j])
    /\ IdempotencyLastWriteWins

\* a snapshot with every timestamp cut down to the whole second
WholeSeconds(snapshot) ==
    [snapshot EXCEPT
        !.created_at = DateTime(snapshot.created_at.secs, 0),
        !.updated_at = DateTime(snapshot.updated_at.secs, 0),
        !.errors = [i \in DOMAIN snapshot.errors |->
                       [snapshot.errors[i] EXCEPT
                           !.timestamp = DateTime(snapshot.errors[i].timestamp.secs, 0)]]]

\* what get returns for a job id: the snapshot last upserted, in whole seconds
StoredSnapshot(j) ==
    IF written.snap[j].some THEN SomeSnapshot(WholeSeconds(written.snap[j].value))
    ELSE NoneSnapshot

\* C26 (amended): the ledger is two independent last-write-wins maps, and
\* get(id) returns the snapshot last given to upsert for id with created_at,
\* updated_at and the errors' timestamps cut down to whole seconds, None when
\* there is none; get_idempotent(k) returns the job id last remembered for
\* k, None when there is none; neither map is changed by a write of the other.
C26_LastWriteWins ==
    /\ \A j \in JobIds : get(j) = StoredSnapshot(j)
    /\ GetReturned(StoredSnapshot)
    /\ IdempotencyLastWriteWins

\* a get has returned a snapshot written within a second, errors included,
\* while the other job id was never written and a key is remembered
C26_Witness ==
    /\ ledger_call.op = "get"
    /\ ledger_call.snap.some
    /\ written.snap[ledger_call.job].value.updated_at.nanos # 0
    /\ written.snap[ledger_call.job].value.errors # << >>
    /\ \E j \in JobIds : ~written.snap[j].some
    /\ \E k \in LedgerKeys : idem[k] # None

\* a step in which prune_expired is called and returns
PruneStep == ledger_call'.n # ledger_call.n /\ ledger_call'.op = "prune_expired"

\* the idempotency keys stored
IdemEntries(partition) == {k \in DOMAIN partition : partition[k] # None}

\* a last_prune_idem cursor is stored and lies more than the idempotency
\* retention back
StaleCursor ==
    /\ ledger_meta.last_prune_idem \notin {NoCursor, Unparsable}
    /\ wall_clock.secs - ledger_meta.last_prune_idem
           > RETENTION_IDEMPOTENCY_DAYS * SecondsPerDay

\* prune_expired sets the three cursors to the current time
CursorsAdvance ==
    /\ ledger_meta'.last_prune_jobs = wall_clock.secs
    /\ ledger_meta'.last_prune_logs = wall_clock.secs
    /\ ledger_meta'.last_prune_idem = wall_clock.secs

\* C27 as stated: prune_expired drains the idempotency partition when a
\* stored last_prune_idem cursor is older than 14 days and removes no
\* idempotency entry in every other case; it always sets the three cursors
\* to the current time.
C27_DrainOnlyOnStaleCursor ==
    [][PruneStep =>
          /\ IF StaleCursor THEN IdemEntries(idem') = {} ELSE idem' = idem
          /\ CursorsAdvance]_vars

\* C27 (amended): prune_expired drains the idempotency partition when no
\* last_prune_idem cursor is stored (the first prune) or when the stored
\* cursor is older than 14 days, and removes no idempotency entry in every
\* other case; it always sets the three cursors to the current time.
C27_DrainOnFirstOrStaleCursor ==
    [][PruneStep =>
          /\ IF StaleCursor \/ ledger_meta.last_prune_idem = NoCursor
             THEN IdemEntries(idem') = {}
             ELSE idem' = idem
          /\ CursorsAdvance]_vars

\* prune_expired found a cursor more than 14 days old and drained a key
C27_Witness ==
    /\ ledger_call.op = "prune_expired"
    /\ ledger_call.cursor # NoCursor
    /\ ledger_call.stats.idempotency_pruned > 0
    /\ IdemEntries(idem) = {}
    /\ ledger_meta.last_prune_idem > ledger_call.cursor + RETENTION_IDEMPOTENCY_DAYS * SecondsPerDay

\* the job ids whose stored snapshot was last updated more than the job
\* retention ago
ExpiredJobs ==
    {j \in DOMAIN jobs :
        /\ jobs[j] # NoSnapshot
        /\ wall_clock.secs - jobs[j].updated_at > RETENTION_JOBS_DAYS * SecondsPerDay}

\* C28: prune_expired removes the snapshots whose updated_at lies more than
\* 30 days back and keeps the younger ones (no method writes the logs
\* partition, which stays empty), and PruneStats reports the number of
\* entries removed from each partition.
C28_PruneHonoursRetention ==
    [][PruneStep =>
          /\ \A j \in DOMAIN jobs :
                jobs'[j] = IF j \in ExpiredJobs THEN NoSnapshot ELSE jobs[j]
          /\ ledger_call'.stats =
                PruneStats(Cardinality(ExpiredJobs), 0,
                           Cardinality(IdemEntries(idem) \ IdemEntries(idem')))]_vars

(***************************************************************************)
(* Properties of the dead letter queue (under DlqSpec)                     *)
(***************************************************************************)
\* a step in which move_to_dlq is called and returns Ok
MoveStep ==
    /\ queue_call'.n # queue_call.n
    /\ queue_call'.op = "move_to_dlq"
    /\ queue_call'.ok

\* C29: after a successful move_to_dlq(seq, code, message, attempts),
\* get_dlq_task(seq) returns an entry with the original task and the given
\* failure_code, failure_message and attempts, under the same sequence
\* number; get_task(seq) still returns the task; the sequence counter and
\* all other task and dlq entries are unchanged.
C29_MoveToDlq ==
    [][MoveStep =>
          LET seq == queue_call'.seq
              moved == OptionDlq(dlq'[seq])
          IN /\ get_task(seq) # NoTask
             /\ moved.some
             /\ moved.value.task = [some |-> TRUE, value |-> get_task(seq)]
             /\ moved.value.failure_code = queue_call'.failure_code
             /\ moved.value.failure_message = queue_call'.failure_message
             /\ moved.value.attempts = queue_call'.attempts
             /\ tasks'[seq] = get_task(seq)
             /\ \A s \in SeqIds : tasks'[s] = tasks[s]
             /\ \A s \in SeqIds \ {seq} : dlq'[s] = dlq[s]
             /\ seq_counter' = seq_counter
             /\ meta_next_seq' = meta_next_seq]_vars

\* a task was moved with three attempts while another entry was in the dead
\* letter queue, under the sequence number where the task still is
C29_Witness ==
    /\ queue_call.op = "move_to_dlq"
    /\ queue_call.ok
    /\ queue_call.attempts = 3
    /\ dlq[queue_call.seq].task = [some |-> TRUE, value |-> get_task(queue_call.seq)]
    /\ dlq[queue_call.seq].attempts = 3
    /\ get_task(queue_call.seq) # NoTask
    /\ \E s \in SeqIds \ {queue_call.seq} : dlq[s] # NoDlq

(***************************************************************************)
(* Properties of the health endpoint (under HealthSpec)                    *)
(***************************************************************************)
\* C30: GET /health answers 200 only when every component is healthy and
\* 503 otherwise; it answers 503 in every state in which
\* TaskBroker.health_check() is false because a worker inbox is closed.
C30_HealthReflectsBroker ==
    [][health_answer' # health_answer =>
          /\ health_answer'.status_code \in {200, 503}
          /\ health_answer'.status_code = 200 => health_check
          /\ ~health_check => health_answer'.status_code = 503]_vars

(***************************************************************************)
(* Properties of concurrent enqueue calls (under Spec)                     *)
(***************************************************************************)
\* whether call p is suspended in send on a full inbox whose worker is alive
SuspendedOnFullInbox(p) ==
    /\ proc[p].pc = "send"
    /\ inbox_open[proc[p].widx]
    /\ ~HasCapacity(proc[p].widx)

\* C31: Broker.enqueue holds the queue write lock only while it persists the
\* task: the lock, when held, is held by a call between its two store writes,
\* so no call that selects a worker or waits for inbox capacity holds it, and
\* a call suspended on a full inbox leaves the lock free for a concurrent
\* enqueue to persist its task and for a concurrent reader.
C31_LockOnlyWhilePersisting ==
    /\ lock # Free => proc[lock].pc = "qmeta"
    /\ \A p \in Procs : proc[p].pc \in {"select", "send"} => lock # p
    /\ \A p \in Procs : SuspendedOnFullInbox(p) => lock # p

\* a call is suspended on a full inbox while a later call has persisted its
\* task and delivered it to another inbox, the lock being free
C31_Witness ==
    \E p \in Procs, w \in Workers :
       /\ SuspendedOnFullInbox(p)
       /\ w # proc[p].widx
       /\ lock = Free
       /\ \E i \in 1..Len(inbox[w]) :
             /\ inbox[w][i].seq > proc[p].seq
             /\ tasks[inbox[w][i].seq] # NoTask

\* C32: when no store write of an enqueue failed or was cut off, in every
\* state in which no enqueue holds the write lock the persisted next_seq equals
\* the in-memory counter and equals 1 + the largest key in tasks (0 when tasks
\* is empty), whatever the interleaving of the concurrent enqueue calls.
C32_CounterMatchesStore ==
    (lock = Free /\ ~hist.dirty) =>
        /\ OpenCounter(meta_next_seq) = seq_counter
        /\ seq_counter = (IF TaskKeys = {} THEN 0 ELSE 1 + SetMax(TaskKeys))

\* two calls are past the lock at once, the second having persisted its task
\* while the first still waits to send, and the lock is free
C32_Witness ==
    /\ lock = Free /\ ~hist.dirty
    /\ \E p, q \in Procs :
          /\ p # q
          /\ proc[p].pc = "send" /\ proc[q].pc \in {"select", "send"}
          /\ proc[q].seq > proc[p].seq
          /\ seq_counter = proc[q].seq + 1
          /\ TaskKeys # {}

\* requests p and q carry the same idempotency key and the same manifest and
\* are both being handled
OverlappingTwins(p, q) ==
    /\ p # q
    /\ InFlight(p) /\ InFlight(q)
    /\ proc[p].key # NoKey /\ proc[p].key = proc[q].key
    /\ proc[p].body = "ok" /\ proc[q].body = "ok"
    /\ proc[p].n = proc[q].n /\ proc[p].skey = proc[q].skey

\* C33: two POST /jobs requests with the same idempotency key and the same
\* manifest that run concurrently create at most one job snapshot for the key
\* and enqueue the manifest's tasks at most once, and both responses carry the
\* same job_id.
C33_OverlapDeduplicated ==
    /\ \A p, q \in Procs :
          OverlappingTwins(p, q) =>
             /\ jobs[proc[p].job] = NoSnapshot \/ jobs[proc[q].job] = NoSnapshot
             /\ TaskKeysOf(tasks, proc[p].job) = {} \/ TaskKeysOf(tasks, proc[q].job) = {}
    /\ \A p, q \in Procs :
          (/\ p # q
           /\ proc[p].pc = "done" /\ proc[q].pc = "done"
           /\ proc[p].key # NoKey /\ proc[p].key = proc[q].key
           /\ ~hist.alone[proc[p].key]
           /\ proc[p].status = 202 /\ proc[q].status = 202
           /\ proc[p].rkey = proc[q].rkey /\ proc[p].rcount = proc[q].rcount)
              => proc[p].rjob = proc[q].rjob

\* request p is answered 202 in this step, for a job of its own or a replayed one
Accepted202(p) ==
    /\ InFlight(p)
    /\ proc'[p].pc = "done"
    /\ proc'[p].status = 202

C35_OrphanPointerIsMiss ==
    [][\A p \in Procs :
          LET r == proc[p]
          IN /\ (/\ r.pc = "idem_get" /\ jobs[r.cand] = NoSnapshot
                 /\ proc'[p] # r /\ restarts' = restarts) =>
                   /\ proc'[p].kind # "replay"
                   /\ r.body = "ok" =>
                         /\ proc'[p].pc = "upload"
                         /\ proc'[p].orphan = r.cand
                         /\ proc'[p].job # r.cand
                   /\ r.body # "ok" =>
                         /\ proc'[p].pc = "done"
                         /\ proc'[p].status = BodyStatus(r.body)
             /\ (r.orphan # None /\ r.pc = "remember" /\ proc'[p].pc = "upsert") =>
                   /\ idem'[r.key] = r.job
                   /\ r.job # r.orphan
             /\ (r.orphan # None /\ r.pc = "upsert" /\ proc'[p].pc = "enqueue") =>
                   /\ jobs'[r.job].job_id = r.job
                   /\ jobs'[r.job].status = "Queued"
                   /\ jobs'[r.job].resource_total = r.n
             /\ (r.orphan # None /\ FreshAccepted(p)) =>
                   /\ proc'[p].rjob = r.job
                   /\ proc'[p].rjob # r.orphan
                   /\ proc'[p].rcount = r.n
                   /\ proc'[p].wlog = ExpectedWrites(r.key, r.n)
                   /\ jobs'[r.job].job_id = r.job
                   /\ Len(r.seqs) = r.n
                   /\ \A i \in 1..r.n : tasks'[r.seqs[i]] = Task(r, i)]_vars

\* a request that found an orphan pointer has overwritten it, stored its
\* snapshot and persisted the last of its two tasks
C35_Witness ==
    \E p \in Procs :
       /\ proc[p].orphan # None
       /\ proc[p].pc = "send"
       /\ proc[p].n = 2 /\ proc[p].idx = 2
       /\ idem[proc[p].key] = proc[p].job
       /\ jobs[proc[p].job] # NoSnapshot
       /\ jobs[proc[p].orphan] = NoSnapshot
       /\ Cardinality(TaskKeysOf(tasks, proc[p].job)) = 2

\* C37 as stated: within any single worker inbox envelopes are received in
\* strictly increasing seq order, for every interleaving of concurrent
\* Broker.enqueue calls.
C37_InboxSeqOrder == \A w \in Workers : SeqsIncreasing(received[w])

\* the envelopes of job j among q, in the order of q
OfJob(q, j) == SelectSeq(q, LAMBDA e : e.task.job_id = j)

\* C37 (amended): within any single worker inbox the envelopes of one job,
\* whose enqueue calls are issued one after another, are received in strictly
\* increasing seq order for every interleaving, and so are all envelopes as
\* long as no enqueue call of the run started while another was between its
\* sequence assignment and its send; calls that overlap may deliver into one
\* inbox in either order.
C37_NonOverlappingInSeqOrder ==
    \A w \in Workers :
        /\ \A j \in JobIds : SeqsIncreasing(OfJob(Delivered(w), j))
        /\ hist.seqOnly => SeqsIncreasing(Delivered(w))

\* calls overlapped and an inbox was given a later sequence number first,
\* followed by two envelopes of one job
C37_Witness ==
    /\ ~hist.seqOnly
    /\ \E w \in Workers :
          /\ ~SeqsIncreasing(Delivered(w))
          /\ received[w] # <<>>
          /\ \E j \in JobIds : Len(OfJob(Delivered(w), j)) = 2

\* the Broker.enqueue call of p returns the error of Queue.enqueue in this step
EnqueueFails(p) ==
    /\ proc[p].pc \in {"enqueue", "qmeta"}
    /\ Answered(p)

\* C38: when Queue.enqueue fails inside Broker.enqueue the error is returned
\* (the request is answered 500), no envelope is sent to any inbox, the
\* round-robin index does not advance and the persisted next_seq is unchanged;
\* the sequence number the failed call consumed is never held or returned by
\* a later enqueue of the same run.
C38_FailedEnqueue ==
    /\ [][\A p \in Procs :
            EnqueueFails(p) =>
               /\ proc'[p].status = 500
               /\ inbox' = inbox
               /\ hist'.sent = hist.sent
               /\ tasks_published' = tasks_published
               /\ next_worker' = next_worker
               /\ meta_next_seq' = meta_next_seq
               /\ hist'.failed # hist.failed
               /\ \A f \in hist'.failed : f < seq_counter']_vars
    /\ [](/\ hist.failed \cap hist.returned = {}
          /\ \A p \in Procs : InCall(p) => proc[p].seq \notin hist.failed
          /\ \A f \in hist.failed : f < seq_counter)

\* after a failed call another call has persisted a task and sent it
C38_Witness ==
    /\ hist.failed # {}
    /\ \E s \in hist.returned : \A f \in hist.failed : s > f
    /\ \E w \in Workers : Delivered(w) # <<>>
    /\ \E p \in Procs : proc[p].pc = "done" /\ proc[p].status = 500

(***************************************************************************)
(* Properties of validation and resolver together (under AgreeSpec)        *)
(***************************************************************************)
\* C39: validation accepts the proxy section of a configuration exactly when
\* resolve_all succeeds on it, so every pool of a configuration that passed
\* validation resolves to a tier list.
C39_ValidateIffResolveAll ==
    (ValidationReturned /\ (ResolveAllOk \/ ResolveAllErr)) =>
        /\ validation.state = "Ok" <=> ResolveAllOk
        /\ validation.state = "Ok" => ResolvedNames = DOMAIN pools

(***************************************************************************)
(* Properties of the dead letter queue of a running server (DlqRunSpec)    *)
(***************************************************************************)
\* move_to_dlq returns TaskNotFound in this step
MoveMisses ==
    /\ queue_call' # queue_call
    /\ queue_call'.op = "move_to_dlq"
    /\ ~queue_call'.ok

\* C40: move_to_dlq(seq, ...) for a sequence number with no entry in tasks
\* returns TaskNotFound(seq) and leaves the dlq and tasks partitions and the
\* counter unchanged; so in every reachable state every key in dlq is a key
\* in tasks and is smaller than current_seq().
C40_DlqKeysAreTaskKeys ==
    /\ [][MoveMisses =>
            /\ get_task(queue_call'.seq) = NoTask
            /\ dlq' = dlq
            /\ tasks' = tasks
            /\ seq_counter' = seq_counter
            /\ meta_next_seq' = meta_next_seq]_vars
    /\ [](\A s \in SeqIds :
            dlq[s] # NoDlq => get_task(s) # NoTask /\ s < current_seq)

(***************************************************************************)
(* Properties of dispatch with receiving workers (under DispatchSpec)      *)
(***************************************************************************)
\* request p is inside, or about to enter, the Broker.enqueue call for its
\* i-th task
Enqueuing(p, i) ==
    /\ proc[p].pc \in {"enqueue", "qmeta", "select", "send"}
    /\ proc[p].idx = i

\* the number of envelopes with sequence number s put into the inboxes
Placements(s) ==
    Cardinality({<<w, i>> \in Workers \X (1..MaxTasks) :
                    i <= Len(hist.sent[w]) /\ hist.sent[w][i].seq = s})

\* C36: with every worker receiving from its inbox and no failing store
\* write, every Broker.enqueue call eventually returns and every persisted
\* task is eventually placed in exactly one inbox: the write lock and full
\* inboxes never deadlock concurrent enqueue calls.
C36_DispatchLive ==
    /\ \A p \in Procs : \A i \in 1..MaxRes : Enqueuing(p, i) ~> ~Enqueuing(p, i)
    /\ \A s \in SeqIds :
          (tasks[s] # NoTask) ~> (Placements(s) = 1 \/ hist.runFault)
    /\ [](\A s \in SeqIds : Placements(s) <= 1)

\* a call is suspended on a full inbox while another call is under way, no
\* write having failed
C36_Witness ==
    /\ ~hist.runFault
    /\ \E p \in Procs :
          /\ SuspendedOnFullInbox(p)
          /\ \E q \in Procs \ {p} : proc[q].pc \in {"qmeta", "select", "send"}

====
